---- MODULE Spec2Model ----
(***************************************************************************)
(* The hive_agent warden (src/hive_agent-warden/src/main.rs): a process    *)
(* supervisor.  Three kinds of threads share the service registry          *)
(* (WARDEN_STATE), the process-handle table (RUNNING_PROCESSES) and the    *)
(* failure counters (HEALTH_CHECK_FAILURES):                               *)
(*   "main"  runs start_enabled_services and only then starts the HTTP     *)
(*           server,                                                       *)
(*   "mon"   runs the loop of monitor_services_loop,                       *)
(*   the members of Handlers are HTTP workers running                      *)
(*           enable_service_handler / disable_service_handler.             *)
(* Every action is one step of one thread between two points where the     *)
(* thread blocks: a mutex acquisition, a sleep, a health probe, a spawn,   *)
(* a wait for a killed child.  A mutex that is locked and dropped again    *)
(* without any such point in between is taken and released inside one      *)
(* step.  HEALTH_CHECK_FAILURES is locked by the monitor thread alone and  *)
(* never across a blocking point, so it has no entry in lock.              *)
(* The registry file is the JSON array save_services_config writes and     *)
(* load_services_config reads: numbers as decimal digits, booleans as      *)
(* literals, the records in the order persist_to_config sorted them.       *)
(***************************************************************************)
EXTENDS Integers, FiniteSets, Sequences, TLC

\* ------------------------------------------------------------------ names
Warden == "hive_agent-warden"
Names == {"A", "B", Warden}
\* a request path naming no record of the registry
Unknown == "ghost"
Handlers == {"h1", "h2"}
Threads == {"main", "mon"} \cup Handlers
Free == "free"
\* h_name of a worker that serves no request
NoName == "-"

\* ----------------------------------------------------------------- bounds
\* largest boot_attempts value a loaded record carries
MaxBoot == 2
\* the u32 failure counter is followed up to this value and then saturates
MaxFailures == 4
\* live processes whose handle was overwritten are counted up to this value
MaxOrphans == 1
\* the ports a loaded record carries are the first NumPorts of the range
NumPorts == 2
\* the Vec of claimed ports is followed up to this length
MaxClaims == 2

\* ---------------------------------------------------- program constants
\* `*count >= 3` in monitor_services_loop
RestartThreshold == 3
\* `find_available_port(6000, 7000)`: the first port of the managed range
PortRangeStart == 6000
\* the ports of the loaded records, and the part of the range [6000, 7000]
\* that find_available_port scans
Ports == PortRangeStart .. (PortRangeStart + NumPorts - 1)
\* the last port of the scanned range
PortRangeEnd == PortRangeStart + NumPorts - 1
\* a port outside the managed range; it stands for the ports the process may
\* be refused to bind as well (those below 1024 for an unprivileged user)
OtherPort == PortRangeStart - 1
\* the ports of the machine
PortUniverse == Ports \cup {OtherPort}
\* `.map(|p| p as u16)`: the u64 of the request keeps its low 16 bits
AsU16(p) == p % (2^16)
\* `body.get("preferred_port").and_then(|v| v.as_u64())` is None
NoPort == 0 - 1
\* the preferred_port values of the requests: ports of the range, a port
\* outside it, and a number that no u16 holds
PreferredPorts == Ports \cup {OtherPort, 2^16 + PortRangeStart}

VARIABLES
    services,   \* WARDEN_STATE.services: name -> ServiceConfig
    ports_in_use, \* WARDEN_STATE.ports_in_use: the Vec of claimed ports
    order,      \* the order in which services.values() yields the records
    file,       \* the registry file: a sequence of JSON objects
    written,    \* history: persist_to_config wrote the file since it was loaded
    p_err,      \* history: thread -> persist_to_config returned Err in the
                \* tick or admin call the thread is in or has just ended
    processes,  \* RUNNING_PROCESSES: name -> "none" (no entry), "live", "dead"
    orphans,    \* name -> live children whose Child was dropped by an insert
    failures,   \* HEALTH_CHECK_FAILURES: name -> count, 0 for no entry
    exe,        \* name -> whether start_service can launch the executable now
    lock,       \* mutex -> the thread holding it, or Free
    s_pc, s_todo, s_cur,            \* start_enabled_services
    m_pc, m_todo, m_cur, m_alive,   \* monitor_services_loop
    m_stale,    \* history: an admin handler wrote running of m_cur's record
                \* after the monitor polled its liveness and before the
                \* monitor wrote the polled value to it
    m_err,      \* history: a probe or a launch of the tick in progress failed
    h_pc, h_name,                   \* the HTTP workers
    listeners,  \* the ports some socket of the machine is bound to
    denied,     \* the ports this process may not bind (privileged ports)
    a_req,      \* worker -> preferred_port of the allocate request, as sent
    a_port,     \* worker -> the u16 port the worker is handling
    a_status,   \* worker -> the "status" of the response: success, reassigned
    a_seen,     \* worker -> the ports whose bind failed in its allocate call
    response    \* what the last health probe got from the service

vars == <<services, ports_in_use, order, file, written, p_err, processes, orphans,
          failures, exe, lock, s_pc, s_todo, s_cur, m_pc, m_todo, m_cur,
          m_alive, m_stale, m_err, h_pc, h_name,
          listeners, denied, a_req, a_port, a_status, a_seen, response>>

regVars == <<services, ports_in_use, order>>
fileVars == <<file, written, p_err>>
procVars == <<processes, orphans>>
spVars == <<s_pc, s_todo, s_cur>>
monVars == <<m_pc, m_todo, m_cur, m_alive, m_stale, m_err>>
hVars == <<h_pc, h_name>>
portVars == <<listeners, denied, a_req, a_port, a_status, a_seen>>

\* ------------------------------------------------------------ ServiceConfig
\* The fields of ServiceConfig that the supervisor reads or writes after load.
ServiceConfig ==
    [enabled : BOOLEAN, running : BOOLEAN, healthy : BOOLEAN,
     failed : BOOLEAN, boot_attempts : 0..MaxBoot, port : Ports]

Min(a, b) == IF a < b THEN a ELSE b

\* ------------------------------------------------------- the registry file
\* serde_json writes a u16 or u32 as its decimal digits
RECURSIVE Digits(_)
Digits(n) == IF n < 10 THEN <<n>> ELSE Append(Digits(n \div 10), n % 10)

\* serde_json reads a number from its decimal digits
RECURSIVE Number(_)
Number(ds) ==
    IF Len(ds) = 1 THEN ds[1]
    ELSE 10 * Number(SubSeq(ds, 1, Len(ds) - 1)) + ds[Len(ds)]

\* serde_json writes a bool as the literal true or false, and reads it back
BoolText(b) == IF b THEN "true" ELSE "false"
TextBool(t) == t = "true"

\* Serialize for ServiceConfig: the JSON object of the record r named n
JsonOf(n, r) ==
    [name |-> n,
     enabled |-> BoolText(r.enabled),
     running |-> BoolText(r.running),
     healthy |-> BoolText(r.healthy),
     failed |-> BoolText(r.failed),
     boot_attempts |-> Digits(r.boot_attempts),
     port |-> Digits(r.port)]

\* the JSON object of the record stored under n
ToJson(n) == JsonOf(n, services[n])

\* the fields Deserialize for ServiceConfig requires of a JSON object
FieldNames ==
    {"name", "enabled", "running", "healthy", "failed", "boot_attempts",
     "port"}

\* fs::read_to_string and serde_json::from_str both return Ok: the file is
\* there and every object of its array has the fields of ServiceConfig
Readable(f) == \A i \in DOMAIN f : DOMAIN f[i] = FieldNames

\* the content read when the file does not exist: read_to_string fails
NoFile == <<[absent |-> "true"]>>

\* an object that is cut off after its name
Truncated(n) == [name |-> n]

\* Deserialize for ServiceConfig
FromJson(j) ==
    [name |-> j.name,
     enabled |-> TextBool(j.enabled),
     running |-> TextBool(j.running),
     healthy |-> TextBool(j.healthy),
     failed |-> TextBool(j.failed),
     boot_attempts |-> Number(j.boot_attempts),
     port |-> Number(j.port)]

\* the record stored under n, as load_services_config returns it
Named(n) == [name |-> n] @@ services[n]

\* save_services_config: the JSON array of the records named by q, in order
SaveServicesConfig(q) == [i \in 1..Len(q) |-> ToJson(q[i])]

\* load_services_config: the Vec<ServiceConfig> of a JSON array
LoadServicesConfig(f) == [i \in 1..Len(f) |-> FromJson(f[i])]

\* the orders in which a HashMap holding the names S can yield them
Orders(S) ==
    {q \in [1..Cardinality(S) -> S] : \A i, j \in DOMAIN q : q[i] = q[j] => i = j}

\* one step of the stable sort_by(|a, b| a.port.cmp(&b.port)): n goes behind
\* every name of the sorted sequence whose port is not larger
InsertByPort(sorted, n) ==
    LET k == Cardinality({i \in DOMAIN sorted :
                             services[sorted[i]].port <= services[n].port})
    IN  SubSeq(sorted, 1, k) \o <<n>> \o SubSeq(sorted, k + 1, Len(sorted))

\* SortByPort without the sort
KeepOrder(q) == q

\* services.sort_by(|a, b| a.port.cmp(&b.port))
RECURSIVE SortByPort(_)
SortByPort(q) ==
    IF q = <<>> THEN <<>>
    ELSE InsertByPort(SortByPort(SubSeq(q, 1, Len(q) - 1)), q[Len(q)])

\* what persist_to_config writes: state.services.values(), sorted by port
PersistToConfig == SaveServicesConfig(SortByPort(order))

\* the ports initialize_from_config pushes to ports_in_use, in file order
ClaimedAtLoad(recs) ==
    LET claimed == SelectSeq(recs, LAMBDA r : r.enabled \/ r.running)
    IN  [i \in 1..Len(claimed) |-> claimed[i].port]

\* ------------------------------------------------- check_service_health
\* the characters str::trim takes off both ends
White == {" ", "\t", "\n", "\r"}

\* str::trim
RECURSIVE Trim(_)
Trim(s) ==
    IF s = << >> THEN s
    ELSE IF s[1] \in White THEN Trim(Tail(s))
    ELSE IF s[Len(s)] \in White THEN Trim(SubSeq(s, 1, Len(s) - 1))
    ELSE s

\* the bodies a service answers with
Bodies ==
    {<<"t", "r", "u", "e">>,
     <<" ", "t", "r", "u", "e", "\n">>,
     <<"t", "r", " ", "u", "e">>,
     <<"\"", "t", "r", "u", "e", "\"">>,
     <<"f", "a", "l", "s", "e">>,
     << >>}

\* the status codes a service answers with
Statuses == {200, 404, 500}

\* no probe was made yet
NoResponse == [kind |-> "none", status |-> 0, body |-> << >>]

\* what `client.get(&health_url).send()` and `resp.text()` can give: the
\* connection is refused, the 5 s timeout passes, a response arrives whose
\* body cannot be read ("cut"), or a response arrives with status and body
Responses ==
    {[kind |-> k, status |-> 0, body |-> << >>] : k \in {"refused", "timeout"}}
    \cup [kind : {"reply", "cut"}, status : Statuses, body : Bodies]

\* the filter of start_enabled_services and of the monitor's snapshot
EnabledServices ==
    {n \in DOMAIN services : services[n].enabled /\ n # Warden}

\* HashMap::insert(name, child): a Child already stored under name is dropped,
\* which neither kills nor reaps it
InsertChild(n) ==
    /\ processes' = [processes EXCEPT ![n] = "live"]
    /\ orphans' = [orphans EXCEPT ![n] =
                      IF processes[n] = "live"
                      THEN Min(orphans[n] + 1, MaxOrphans) ELSE orphans[n]]

\* the children a thread has spawned and not yet inserted
HeldBy(n) ==
    (IF m_pc \in {"rs_ins", "st_ins"} /\ m_cur = n THEN 1 ELSE 0)
    + Cardinality({h \in Handlers : h_pc[h] = "e_ins" /\ h_name[h] = n})

\* live processes spawned for n, tracked or not
LiveCount(n) ==
    (IF processes[n] = "live" THEN 1 ELSE 0) + orphans[n] + HeldBy(n)

\* ------------------------------------------------------------------- Init
\* initialize_from_config over a registry file holding the records `loaded`
InitWith(loaded) ==
    /\ services \in [loaded -> ServiceConfig]
    /\ order \in Orders(loaded)
    /\ file \in {SaveServicesConfig(q) : q \in Orders(loaded)}
    /\ written = FALSE
    /\ p_err = [t \in Threads |-> FALSE]
    /\ ports_in_use = ClaimedAtLoad(LoadServicesConfig(file))
    /\ processes = [n \in Names |-> "none"]
    /\ orphans = [n \in Names |-> 0]
    /\ failures = [n \in Names |-> 0]
    /\ exe \in [Names -> BOOLEAN]
    /\ \A n \in Names \ loaded : exe[n]
    /\ lock = [l \in {"state", "procs"} |-> Free]
    /\ s_pc = "init" /\ s_todo = {} /\ s_cur = "A"
    /\ m_pc = "sleep" /\ m_todo = {} /\ m_cur = "A" /\ m_alive = FALSE
    /\ m_stale = FALSE /\ m_err = FALSE
    /\ h_pc = [h \in Handlers |-> "idle"]
    /\ h_name = [h \in Handlers |-> NoName]
    /\ a_req = [h \in Handlers |-> NoPort]
    /\ a_port = [h \in Handlers |-> PortRangeStart]
    /\ a_status = [h \in Handlers |-> ""]
    /\ a_seen = [h \in Handlers |-> {}]
    /\ response = NoResponse

\* no other program of the machine listens on a port of the model and the
\* process may bind every port
NoListeners == listeners = {} /\ denied = {}

\* the registry file holds the one record of service A, on the first port
Init ==
    /\ services \in [{"A"} -> {r \in ServiceConfig : r.port = PortRangeStart}]
    /\ InitWith({"A"})
    /\ NoListeners

\* ------------------------------------------------- monitor_services_loop
\* MonTick without the filter of the snapshot
MonTickAll ==
    /\ m_pc = "sleep"
    /\ lock["state"] = Free
    /\ m_todo' = DOMAIN services
    /\ m_pc' = "next"
    /\ p_err' = [p_err EXCEPT !["mon"] = FALSE]
    /\ UNCHANGED <<regVars, procVars, failures, exe, portVars, response, file,
                   written, lock, spVars, m_cur, m_alive, m_stale, m_err,
                   hVars>>

\* sleep; lock WARDEN_STATE; snapshot the enabled services; drop
MonTick ==
    /\ m_pc = "sleep"
    /\ lock["state"] = Free
    /\ m_todo' = EnabledServices
    /\ m_pc' = "next"
    /\ p_err' = [p_err EXCEPT !["mon"] = FALSE]
    /\ UNCHANGED <<regVars, procVars, failures, exe, portVars, response, file,
                   written, lock, spVars, m_cur, m_alive, m_stale, m_err,
                   hVars>>

\* next service of the snapshot: lock RUNNING_PROCESSES, try_wait, drop
MonPoll(n) ==
    /\ m_pc = "next"
    /\ n \in m_todo
    /\ lock["procs"] = Free
    /\ m_todo' = m_todo \ {n}
    /\ m_cur' = n
    /\ m_alive' = (processes[n] = "live")
    /\ m_stale' = FALSE
    /\ m_pc' = "lockstate"
    /\ UNCHANGED <<regVars, procVars, failures, exe, portVars, response, fileVars, lock, spVars, m_err,
                   hVars>>

\* MonLockState removing the record of a service found dead and failed
MonLockStateDrop ==
    /\ m_pc = "lockstate"
    /\ lock["state"] = Free
    /\ IF ~m_alive /\ services[m_cur].failed
       THEN services' = [n \in DOMAIN services \ {m_cur} |-> services[n]]
       ELSE services' = [services EXCEPT ![m_cur].running = m_alive]
    /\ IF m_alive
       THEN /\ lock' = [lock EXCEPT !["state"] = "mon"]
            /\ m_pc' = "probe"
       ELSE /\ lock' = lock
            /\ m_pc' = IF services[m_cur].enabled /\ ~services[m_cur].failed
                       THEN "start" ELSE "next"
    /\ m_stale' = FALSE
    /\ UNCHANGED <<ports_in_use, order, procVars, failures, exe, portVars, response, fileVars, spVars,
                   m_todo, m_cur, m_alive, m_err, hVars>>

\* MonLockState starting a service only while its restart budget lasts
MonLockStateBudget ==
    /\ m_pc = "lockstate"
    /\ lock["state"] = Free
    /\ services' = [services EXCEPT ![m_cur].running = m_alive]
    /\ IF m_alive
       THEN /\ lock' = [lock EXCEPT !["state"] = "mon"]
            /\ m_pc' = "probe"
       ELSE /\ lock' = lock
            /\ m_pc' = IF /\ services[m_cur].enabled
                          /\ ~services[m_cur].failed
                          /\ services[m_cur].boot_attempts > 0
                       THEN "start" ELSE "next"
    /\ m_stale' = FALSE
    /\ UNCHANGED <<ports_in_use, order, procVars, failures, exe, portVars, response,
                   fileVars, spVars, m_todo, m_cur, m_alive, m_err, hVars>>

\* lock WARDEN_STATE; svc.running = is_alive; then the probe (lock kept), the
\* not-alive start (lock dropped), or the end of the iteration
MonLockState ==
    /\ m_pc = "lockstate"
    /\ lock["state"] = Free
    /\ services' = [services EXCEPT ![m_cur].running = m_alive]
    /\ IF m_alive
       THEN /\ lock' = [lock EXCEPT !["state"] = "mon"]
            /\ m_pc' = "probe"
       ELSE /\ lock' = lock
            /\ m_pc' = IF services[m_cur].enabled /\ ~services[m_cur].failed
                       THEN "start" ELSE "next"
    /\ m_stale' = FALSE
    /\ UNCHANGED <<ports_in_use, order, procVars, failures, exe, portVars, response, fileVars, spVars,
                   m_todo, m_cur, m_alive, m_err, hVars>>

\* check_service_health can answer true only when some process of the service
\* is there to answer
CanAnswer(n) == LiveCount(n) > 0

\* ShouldRestart without the test of the restart budget
ShouldRestartAnyBudget(count, boot) == count >= RestartThreshold

\* `*count >= 3 && svc.boot_attempts > 0`
ShouldRestart(count, boot) == count >= RestartThreshold /\ boot > 0

\* `*count += 1` on the u32 counter, followed up to MaxFailures
Bump(count) == Min(count + 1, MaxFailures)

\* MonProbe taking one failure off the counter on a success
MonProbeForgive(healthy) ==
    /\ m_pc = "probe"
    /\ healthy => CanAnswer(m_cur)
    /\ services' = [services EXCEPT ![m_cur].healthy = healthy]
    /\ lock' = [lock EXCEPT !["state"] = Free]
    /\ IF healthy
       THEN /\ failures' = [failures EXCEPT
                              ![m_cur] = IF @ > 0 THEN @ - 1 ELSE 0]
            /\ m_pc' = "next"
       ELSE /\ failures' = [failures EXCEPT ![m_cur] = Bump(failures[m_cur])]
            /\ m_pc' = IF ShouldRestart(failures'[m_cur],
                                        services[m_cur].boot_attempts)
                       THEN "rs_stop" ELSE "next"
    /\ m_err' = (m_err \/ ~healthy)
    /\ UNCHANGED <<ports_in_use, order, procVars, exe, portVars, response, fileVars,
                   spVars, m_todo, m_cur, m_alive, m_stale, hVars>>

\* the probe returns: svc.healthy = healthy; on failure count it and decide on
\* the forced restart, on success remove the counter; the locks are dropped
ProbeReturns(healthy) ==
    /\ m_pc = "probe"
    /\ healthy => CanAnswer(m_cur)
    /\ services' = [services EXCEPT ![m_cur].healthy = healthy]
    /\ lock' = [lock EXCEPT !["state"] = Free]
    /\ IF healthy
       THEN /\ failures' = [failures EXCEPT ![m_cur] = 0]
            /\ m_pc' = "next"
       ELSE /\ failures' = [failures EXCEPT ![m_cur] = Bump(failures[m_cur])]
            /\ m_pc' = IF ShouldRestart(failures'[m_cur],
                                        services[m_cur].boot_attempts)
                       THEN "rs_stop" ELSE "next"
    /\ m_err' = (m_err \/ ~healthy)
    /\ UNCHANGED <<ports_in_use, order, procVars, exe, portVars, fileVars,
                   spVars, m_todo, m_cur, m_alive, m_stale, hVars>>

\* the probe of the tick, by the value check_service_health returns
MonProbe(healthy) == ProbeReturns(healthy) /\ UNCHANGED response

\* check_service_health: send() returned Ok, text() returned Ok and
\* `text.trim() == "true"`
CheckServiceHealth(resp) ==
    resp.kind = "reply" /\ Trim(resp.body) = <<"t", "r", "u", "e">>

\* the probe of the tick, by what the GET of the health URL got
MonProbeOf(resp) ==
    /\ ProbeReturns(CheckServiceHealth(resp))
    /\ response' = resp

\* StopRemove leaving the entry in the table until the child is reaped
StopRemoveLate(t, n) ==
    /\ lock["procs"] = Free
    /\ lock' = [lock EXCEPT !["procs"] = IF processes[n] # "none" THEN t ELSE Free]
    /\ UNCHANGED <<processes, orphans>>

\* stop_service(name), first half, by thread t: lock RUNNING_PROCESSES and
\* remove the entry; a removed child is killed and the lock is kept for the
\* sleep and the wait; without an entry the lock is dropped at once
StopRemove(t, n) ==
    /\ lock["procs"] = Free
    /\ processes' = [processes EXCEPT ![n] = "none"]
    /\ lock' = [lock EXCEPT !["procs"] = IF processes[n] # "none" THEN t ELSE Free]
    /\ UNCHANGED orphans

\* stop_service(name), second half: child.wait() returned Ok or Err (the
\* callers drop the result), the guard is dropped
StopReaped(t) ==
    /\ lock["procs"] = t
    /\ lock' = [lock EXCEPT !["procs"] = Free]

\* forced restart: stop_service(&service.name)
MonRsStop ==
    /\ m_pc = "rs_stop"
    /\ StopRemove("mon", m_cur)
    /\ m_pc' = IF processes[m_cur] # "none" THEN "rs_wait" ELSE "rs_spawn"
    /\ UNCHANGED <<regVars, failures, exe, portVars, response, fileVars, spVars, m_todo, m_cur, m_alive,
                   m_stale, m_err, hVars>>

MonRsWait ==
    /\ m_pc = "rs_wait"
    /\ StopReaped("mon")
    /\ m_pc' = "rs_spawn"
    /\ UNCHANGED <<regVars, procVars, failures, exe, portVars, response, fileVars, spVars, m_todo, m_cur,
                   m_alive, m_stale, m_err, hVars>>

\* MonRsSpawn going on to the insert whatever start_service returned
MonRsSpawnAlways ==
    /\ m_pc = "rs_spawn"
    /\ m_pc' = "rs_ins"
    /\ m_err' = (m_err \/ ~exe[m_cur])
    /\ UNCHANGED <<regVars, procVars, failures, exe, portVars, response,
                   fileVars, lock, spVars, m_todo, m_cur, m_alive, m_stale,
                   hVars>>

\* forced restart: sleep 1 s, then start_service(&service)
MonRsSpawn ==
    /\ m_pc = "rs_spawn"
    /\ m_pc' = IF exe[m_cur] THEN "rs_ins" ELSE "next"
    /\ m_err' = (m_err \/ ~exe[m_cur])
    /\ UNCHANGED <<regVars, procVars, failures, exe, portVars, response, fileVars, lock, spVars, m_todo,
                   m_cur, m_alive, m_stale, hVars>>

\* forced restart: lock RUNNING_PROCESSES and insert the child
MonRsIns ==
    /\ m_pc = "rs_ins"
    /\ lock["procs"] = Free
    /\ InsertChild(m_cur)
    /\ lock' = [lock EXCEPT !["procs"] = "mon"]
    /\ m_pc' = "rs_state"
    /\ UNCHANGED <<regVars, failures, exe, portVars, response, fileVars, spVars, m_todo, m_cur, m_alive,
                   m_stale, m_err, hVars>>

\* stands for u32::MAX, the value a u32 wraps to below 0: the largest
\* integer TLC can hold
U32Max == 2147483647

\* `-= 1` on a u32 of a build without overflow checks
U32Dec(n) == IF n = 0 THEN U32Max ELSE n - 1

\* MonRsState taking two boot attempts
MonRsStateTwo ==
    /\ m_pc = "rs_state"
    /\ lock["state"] = Free
    /\ services' = [services EXCEPT
                      ![m_cur].running = TRUE,
                      ![m_cur].boot_attempts =
                          U32Dec(U32Dec(services[m_cur].boot_attempts))]
    /\ failures' = [failures EXCEPT ![m_cur] = 0]
    /\ lock' = [lock EXCEPT !["procs"] = Free]
    /\ m_pc' = "next"
    /\ UNCHANGED <<ports_in_use, order, procVars, exe, portVars, response,
                   fileVars, spVars, m_todo, m_cur, m_alive, m_stale, m_err,
                   hVars>>

\* forced restart: lock WARDEN_STATE (RUNNING_PROCESSES still held), set
\* running, take one boot attempt, remove the failure counter, drop all
MonRsState ==
    /\ m_pc = "rs_state"
    /\ lock["state"] = Free
    /\ services' = [services EXCEPT
                      ![m_cur].running = TRUE,
                      ![m_cur].boot_attempts =
                          U32Dec(services[m_cur].boot_attempts)]
    /\ failures' = [failures EXCEPT ![m_cur] = 0]
    /\ lock' = [lock EXCEPT !["procs"] = Free]
    /\ m_pc' = "next"
    /\ UNCHANGED <<ports_in_use, order, procVars, exe, portVars, response, fileVars, spVars, m_todo,
                   m_cur, m_alive, m_stale, m_err, hVars>>

\* MonStart giving up the tick when start_service fails
MonStartOrAbort ==
    /\ m_pc = "start"
    /\ m_pc' = IF exe[m_cur] THEN "st_ins" ELSE "sleep"
    /\ m_err' = FALSE
    /\ UNCHANGED <<regVars, procVars, failures, exe, portVars, response, fileVars, lock, spVars, m_todo,
                   m_cur, m_alive, m_stale, hVars>>

\* not alive but enabled and not failed: start_service(&service)
MonStart ==
    /\ m_pc = "start"
    /\ m_pc' = IF exe[m_cur] THEN "st_ins" ELSE "next"
    /\ m_err' = (m_err \/ ~exe[m_cur])
    /\ UNCHANGED <<regVars, procVars, failures, exe, portVars, response, fileVars, lock, spVars, m_todo,
                   m_cur, m_alive, m_stale, hVars>>

MonStIns ==
    /\ m_pc = "st_ins"
    /\ lock["procs"] = Free
    /\ InsertChild(m_cur)
    /\ lock' = [lock EXCEPT !["procs"] = "mon"]
    /\ m_pc' = "st_state"
    /\ UNCHANGED <<regVars, failures, exe, portVars, response, fileVars, spVars, m_todo, m_cur, m_alive,
                   m_stale, m_err, hVars>>

MonStState ==
    /\ m_pc = "st_state"
    /\ lock["state"] = Free
    /\ services' = [services EXCEPT ![m_cur].running = TRUE]
    /\ lock' = [lock EXCEPT !["procs"] = Free]
    /\ m_pc' = "next"
    /\ UNCHANGED <<ports_in_use, order, procVars, failures, exe, portVars, response, fileVars, spVars,
                   m_todo, m_cur, m_alive, m_stale, m_err, hVars>>

\* persist_to_config: lock WARDEN_STATE, write the sorted registry, drop
PersistStep ==
    /\ lock["state"] = Free
    /\ file' = PersistToConfig
    /\ written' = TRUE
    /\ UNCHANGED p_err

\* what a save_services_config that returns Err leaves in the file:
\* File::create failed and the file is as it was, or File::create emptied the
\* file and write_all failed after some of the objects
FailedWrites ==
    {file} \cup
    {SubSeq(PersistToConfig, 1, k - 1) \o <<Truncated(PersistToConfig[k].name)>> :
        k \in DOMAIN PersistToConfig}

\* persist_to_config of thread t returns Err
PersistFails(t) ==
    /\ lock["state"] = Free
    /\ file' \in FailedWrites
    /\ p_err' = [p_err EXCEPT ![t] = TRUE]
    /\ UNCHANGED written

\* MonPersistErr, the loop ending on the error
MonPersistErrExit ==
    /\ m_pc = "next"
    /\ m_todo = {}
    /\ PersistFails("mon")
    /\ m_pc' = "exit"
    /\ m_err' = FALSE
    /\ UNCHANGED <<regVars, procVars, failures, exe, portVars, response, lock,
                   spVars, m_todo, m_cur, m_alive, m_stale, hVars>>

\* `let _ = persist_to_config()` drops the Err: back to the sleep
MonPersistErr ==
    /\ m_pc = "next"
    /\ m_todo = {}
    /\ PersistFails("mon")
    /\ m_pc' = "sleep"
    /\ m_err' = FALSE
    /\ UNCHANGED <<regVars, procVars, failures, exe, portVars, response, lock,
                   spVars, m_todo, m_cur, m_alive, m_stale, hVars>>

\* all services of the snapshot done: persist_to_config, back to the sleep
MonPersist ==
    /\ m_pc = "next"
    /\ m_todo = {}
    /\ PersistStep
    /\ m_pc' = "sleep"
    /\ m_err' = FALSE
    /\ UNCHANGED <<regVars, procVars, failures, exe, portVars, response, lock, spVars, m_todo,
                   m_cur, m_alive, m_stale, hVars>>

\* the steps of one tick after its snapshot
MonitorSteps ==
    \/ \E n \in Names : MonPoll(n)
    \/ MonLockState
    \/ \E healthy \in BOOLEAN : MonProbe(healthy)
    \/ MonRsStop \/ MonRsWait \/ MonRsSpawn \/ MonRsIns \/ MonRsState
    \/ MonStart \/ MonStIns \/ MonStState
    \/ MonPersist

Monitor == MonTick \/ MonitorSteps

\* ------------------------------------------------ start_enabled_services
SpSnapshotAll ==
    /\ s_pc = "init"
    /\ lock["state"] = Free
    /\ s_todo' = DOMAIN services
    /\ s_pc' = "next"
    /\ UNCHANGED <<regVars, procVars, failures, exe, portVars, response, fileVars, lock,
                   s_cur, monVars, hVars>>

\* lock WARDEN_STATE; collect the enabled services; drop
SpSnapshot ==
    /\ s_pc = "init"
    /\ lock["state"] = Free
    /\ s_todo' = EnabledServices
    /\ s_pc' = "next"
    /\ UNCHANGED <<regVars, procVars, failures, exe, portVars, response, fileVars, lock, s_cur, monVars, hVars>>

\* next service: `let mut state = WARDEN_STATE.lock()`
SpLockState(n) ==
    /\ s_pc = "next"
    /\ n \in s_todo
    /\ lock["state"] = Free
    /\ s_todo' = s_todo \ {n}
    /\ s_cur' = n
    /\ lock' = [lock EXCEPT !["state"] = "main"]
    /\ s_pc' = "lockprocs"
    /\ UNCHANGED <<regVars, procVars, failures, exe, portVars, response, fileVars, monVars, hVars>>

\* `let mut processes = RUNNING_PROCESSES.lock()` with WARDEN_STATE held; an
\* entry for the name means `continue`, which drops both guards
SpLockProcs ==
    /\ s_pc = "lockprocs"
    /\ lock["procs"] = Free
    /\ IF processes[s_cur] # "none"
       THEN /\ lock' = [lock EXCEPT !["state"] = Free]
            /\ s_pc' = "next"
       ELSE /\ lock' = [lock EXCEPT !["procs"] = "main"]
            /\ s_pc' = "spawning"
    /\ UNCHANGED <<regVars, procVars, failures, exe, portVars, response, fileVars, s_todo, s_cur, monVars, hVars>>

\* start_service under both guards, and the match on its result
SpSpawn ==
    /\ s_pc = "spawning"
    /\ IF exe[s_cur]
       THEN /\ InsertChild(s_cur)
            /\ services' = [services EXCEPT ![s_cur].running = TRUE,
                                            ![s_cur].healthy = FALSE]
       ELSE /\ UNCHANGED procVars
            /\ services' = [services EXCEPT ![s_cur].running = FALSE,
                                            ![s_cur].failed = TRUE]
    /\ s_pc' = "delay"
    /\ UNCHANGED <<ports_in_use, order, failures, exe, portVars, response, fileVars, lock, s_todo,
                   s_cur, monVars, hVars>>

\* thread::sleep(SERVICE_START_DELAY) is over; the iteration ends and drops
\* both guards
SpDelay ==
    /\ s_pc = "delay"
    /\ lock' = [l \in DOMAIN lock |-> Free]
    /\ s_pc' = "next"
    /\ UNCHANGED <<regVars, procVars, failures, exe, portVars, response, fileVars, s_todo, s_cur, monVars, hVars>>

\* the loop is over; main goes on to start the HTTP server
SpDone ==
    /\ s_pc = "next"
    /\ s_todo = {}
    /\ s_pc' = "done"
    /\ UNCHANGED <<regVars, procVars, failures, exe, portVars, response, fileVars, lock, s_todo, s_cur,
                   monVars, hVars>>

Spawner ==
    \/ SpSnapshot
    \/ \E n \in Names : SpLockState(n)
    \/ SpLockProcs \/ SpSpawn \/ SpDelay \/ SpDone

\* ---------------------------------------------------------- the handlers
\* the HTTP server is bound and run after start_enabled_services returned
Serving == s_pc = "done"

\* an admin write to running of the record the monitor has polled and not yet
\* written
Stales(n) == m_stale \/ (m_pc = "lockstate" /\ m_cur = n)

\* EnBegin refilling the restart budget of the enabled record
EnBeginRefill(h, n) ==
    /\ Serving
    /\ h_pc[h] = "idle"
    /\ lock["state"] = Free
    /\ h_name' = [h_name EXCEPT ![h] = n]
    /\ IF n \in DOMAIN services
       THEN /\ services' = [services EXCEPT ![n].enabled = TRUE,
                                            ![n].failed = FALSE,
                                            ![n].boot_attempts = MaxBoot]
            /\ h_pc' = [h_pc EXCEPT ![h] = "e_persist"]
       ELSE /\ UNCHANGED services
            /\ h_pc' = [h_pc EXCEPT ![h] = "nf_ret"]
    /\ UNCHANGED <<ports_in_use, order, procVars, failures, exe, portVars, response, fileVars, lock,
                   spVars, monVars>>

\* enable_service_handler: lock WARDEN_STATE; a known name gets enabled = true
\* and failed = false, the lock is dropped; an unknown name is answered 404
EnBegin(h, n) ==
    /\ Serving
    /\ h_pc[h] = "idle"
    /\ lock["state"] = Free
    /\ h_name' = [h_name EXCEPT ![h] = n]
    /\ IF n \in DOMAIN services
       THEN /\ services' = [services EXCEPT ![n].enabled = TRUE,
                                            ![n].failed = FALSE]
            /\ h_pc' = [h_pc EXCEPT ![h] = "e_persist"]
       ELSE /\ UNCHANGED services
            /\ h_pc' = [h_pc EXCEPT ![h] = "nf_ret"]
    /\ UNCHANGED <<ports_in_use, order, procVars, failures, exe, portVars, response, fileVars, lock,
                   spVars, monVars>>

\* persist_to_config
EnPersist(h) ==
    /\ h_pc[h] = "e_persist"
    /\ PersistStep
    /\ h_pc' = [h_pc EXCEPT ![h] = "e_check"]
    /\ UNCHANGED <<regVars, procVars, failures, exe, portVars, response, lock, spVars, monVars, h_name>>

\* `if let Err(e) = persist_to_config()` prints the error and goes on
EnPersistErr(h) ==
    /\ h_pc[h] = "e_persist"
    /\ PersistFails(h)
    /\ h_pc' = [h_pc EXCEPT ![h] = "e_check"]
    /\ UNCHANGED <<regVars, procVars, failures, exe, portVars, response, lock,
                   spVars, monVars, h_name>>

\* lock RUNNING_PROCESSES; contains_key decides whether to start; drop
EnCheck(h) ==
    /\ h_pc[h] = "e_check"
    /\ lock["procs"] = Free
    /\ h_pc' = [h_pc EXCEPT ![h] =
                  IF processes[h_name[h]] # "none" THEN "e_ret" ELSE "e_spawn"]
    /\ UNCHANGED <<regVars, procVars, failures, exe, portVars, response, fileVars, lock, spVars, monVars, h_name>>

\* start_service(&service_copy), no lock held
EnSpawn(h) ==
    /\ h_pc[h] = "e_spawn"
    /\ h_pc' = [h_pc EXCEPT ![h] = IF exe[h_name[h]] THEN "e_ins" ELSE "e_fail"]
    /\ UNCHANGED <<regVars, procVars, failures, exe, portVars, response, fileVars, lock, spVars, monVars, h_name>>

\* lock RUNNING_PROCESSES and insert the child
EnIns(h) ==
    /\ h_pc[h] = "e_ins"
    /\ lock["procs"] = Free
    /\ InsertChild(h_name[h])
    /\ lock' = [lock EXCEPT !["procs"] = h]
    /\ h_pc' = [h_pc EXCEPT ![h] = "e_state"]
    /\ UNCHANGED <<regVars, failures, exe, portVars, response, fileVars, spVars, monVars, h_name>>

\* lock WARDEN_STATE (RUNNING_PROCESSES still held); running = true; drop both
EnState(h) ==
    /\ h_pc[h] = "e_state"
    /\ lock["state"] = Free
    /\ services' = [services EXCEPT ![h_name[h]].running = TRUE]
    /\ m_stale' = Stales(h_name[h])
    /\ lock' = [lock EXCEPT !["procs"] = Free]
    /\ h_pc' = [h_pc EXCEPT ![h] = "e_ret"]
    /\ UNCHANGED <<ports_in_use, order, procVars, failures, exe, portVars, response, fileVars, spVars,
                   m_pc, m_todo, m_cur, m_alive, m_err, h_name>>

\* DiBegin going on to stop_service and persist_to_config for an unknown name
DiBeginBlind(h, n) ==
    /\ Serving
    /\ h_pc[h] = "idle"
    /\ lock["state"] = Free
    /\ h_name' = [h_name EXCEPT ![h] = n]
    /\ IF n \in DOMAIN services
       THEN /\ services' = [services EXCEPT ![n].enabled = FALSE,
                                            ![n].running = FALSE,
                                            ![n].healthy = FALSE]
            /\ m_stale' = Stales(n)
       ELSE UNCHANGED <<services, m_stale>>
    /\ h_pc' = [h_pc EXCEPT ![h] = "d_stop"]
    /\ UNCHANGED <<ports_in_use, order, procVars, failures, exe, portVars, response, fileVars, lock,
                   spVars, m_pc, m_todo, m_cur, m_alive, m_err>>

\* disable_service_handler: lock WARDEN_STATE; a known name gets enabled,
\* running and healthy = false, the lock is dropped; else 404
DiBegin(h, n) ==
    /\ Serving
    /\ h_pc[h] = "idle"
    /\ lock["state"] = Free
    /\ h_name' = [h_name EXCEPT ![h] = n]
    /\ IF n \in DOMAIN services
       THEN /\ services' = [services EXCEPT ![n].enabled = FALSE,
                                            ![n].running = FALSE,
                                            ![n].healthy = FALSE]
            /\ m_stale' = Stales(n)
            /\ h_pc' = [h_pc EXCEPT ![h] = "d_stop"]
       ELSE /\ UNCHANGED <<services, m_stale>>
            /\ h_pc' = [h_pc EXCEPT ![h] = "nf_ret"]
    /\ UNCHANGED <<ports_in_use, order, procVars, failures, exe, portVars, response, fileVars, lock,
                   spVars, m_pc, m_todo, m_cur, m_alive, m_err>>

\* DiStop killing and waiting whether or not the table has an entry
DiStopAlways(h) ==
    /\ h_pc[h] = "d_stop"
    /\ lock["procs"] = Free
    /\ processes' = [processes EXCEPT ![h_name[h]] = "none"]
    /\ lock' = [lock EXCEPT !["procs"] = h]
    /\ h_pc' = [h_pc EXCEPT ![h] = "d_wait"]
    /\ UNCHANGED <<regVars, orphans, failures, exe, portVars, response, fileVars, spVars, monVars, h_name>>

\* stop_service(&name)
DiStop(h) ==
    /\ h_pc[h] = "d_stop"
    /\ StopRemove(h, h_name[h])
    /\ h_pc' = [h_pc EXCEPT ![h] =
                  IF processes[h_name[h]] # "none" THEN "d_wait" ELSE "d_persist"]
    /\ UNCHANGED <<regVars, failures, exe, portVars, response, fileVars, spVars, monVars, h_name>>

DiWait(h) ==
    /\ h_pc[h] = "d_wait"
    /\ StopReaped(h)
    /\ h_pc' = [h_pc EXCEPT ![h] = "d_persist"]
    /\ UNCHANGED <<regVars, procVars, failures, exe, portVars, response, fileVars, spVars, monVars, h_name>>

\* persist_to_config
DiPersist(h) ==
    /\ h_pc[h] = "d_persist"
    /\ PersistStep
    /\ h_pc' = [h_pc EXCEPT ![h] = "d_ret"]
    /\ UNCHANGED <<regVars, procVars, failures, exe, portVars, response, lock, spVars, monVars, h_name>>

\* `if let Err(e) = persist_to_config()` prints the error and goes on
DiPersistErr(h) ==
    /\ h_pc[h] = "d_persist"
    /\ PersistFails(h)
    /\ h_pc' = [h_pc EXCEPT ![h] = "d_ret"]
    /\ UNCHANGED <<regVars, procVars, failures, exe, portVars, response, lock,
                   spVars, monVars, h_name>>

\* the response is sent: 200 after enable ("e_ret", or "e_fail" when
\* start_service returned Err) and after disable ("d_ret"), 404 ("nf_ret")
Return(h) ==
    /\ h_pc[h] \in {"e_ret", "e_fail", "d_ret", "nf_ret"}
    /\ h_pc' = [h_pc EXCEPT ![h] = "idle"]
    /\ h_name' = [h_name EXCEPT ![h] = NoName]
    /\ p_err' = [p_err EXCEPT ![h] = FALSE]
    /\ UNCHANGED <<regVars, procVars, failures, exe, portVars, response, file,
                   written, lock, spVars, monVars>>

Handler(h) ==
    \/ \E n \in DOMAIN services \cup {Unknown} : EnBegin(h, n)
    \/ \E n \in DOMAIN services \cup {Unknown} : DiBegin(h, n)
    \/ EnPersist(h) \/ EnCheck(h) \/ EnSpawn(h) \/ EnIns(h) \/ EnState(h)
    \/ DiStop(h) \/ DiWait(h) \/ DiPersist(h)
    \/ Return(h)

\* ---------------------------------------------------------- the port routes
\* the workers that hold the listener of a probe: TcpListener::bind returned
\* Ok and the listener is not dropped yet
Probing == {h \in Handlers : h_pc[h] \in {"a_held", "a_sheld", "c_held"}}

\* the ports a socket is bound to: those of the other programs and those of
\* the probes in progress
Held == listeners \cup {a_port[h] : h \in Probing}

\* TcpListener::bind(("127.0.0.1", port)) returns Ok
Bindable(port) == port \notin Held /\ port \notin denied

\* is_port_in_use: Ok(_) => false, Err(_) => true
IsPortInUse(port) == ~Bindable(port)

\* the request of a worker: allocate keeps service_name for the message only
PortPcs == {"a_probe", "a_held", "a_scan", "a_sheld", "a_push", "a_ret",
            "a_bad", "a_err", "c_probe", "c_held", "c_ret"}

AllocBeginEager(h, named, pref) ==
    /\ Serving
    /\ h_pc[h] = "idle"
    /\ a_req' = [a_req EXCEPT ![h] = pref]
    /\ IF pref # NoPort
       THEN /\ Len(ports_in_use) < MaxClaims
            /\ ports_in_use' = Append(ports_in_use, AsU16(pref))
            /\ a_port' = [a_port EXCEPT ![h] = AsU16(pref)]
            /\ h_pc' = [h_pc EXCEPT ![h] = IF named THEN "a_ret" ELSE "a_bad"]
       ELSE /\ h_pc' = [h_pc EXCEPT ![h] = "a_bad"]
            /\ UNCHANGED <<a_port, ports_in_use>>
    /\ UNCHANGED <<services, order, procVars, failures, exe, response, listeners, denied,
                   a_status, a_seen, fileVars, lock, spVars, monVars, h_name>>

\* allocate_port_handler: service_name and preferred_port are read from the
\* body; (Some, Some) goes on to probe the port, anything else is answered
\* 400 at once
AllocBegin(h, named, pref) ==
    /\ Serving
    /\ h_pc[h] = "idle"
    /\ a_req' = [a_req EXCEPT ![h] = pref]
    /\ IF named /\ pref # NoPort
       THEN /\ a_port' = [a_port EXCEPT ![h] = AsU16(pref)]
            /\ h_pc' = [h_pc EXCEPT ![h] = "a_probe"]
       ELSE /\ h_pc' = [h_pc EXCEPT ![h] = "a_bad"]
            /\ UNCHANGED a_port
    /\ UNCHANGED <<regVars, procVars, failures, exe, response, listeners, denied,
                   a_status, a_seen, fileVars, lock, spVars, monVars, h_name>>

\* `if !is_port_in_use(port)`: the bind of the preferred port; on Ok the
\* worker holds the listener, on Err it goes on to find_available_port
AllocProbe(h) ==
    /\ h_pc[h] = "a_probe"
    /\ IF Bindable(a_port[h])
       THEN /\ h_pc' = [h_pc EXCEPT ![h] = "a_held"]
            /\ UNCHANGED <<a_port, a_seen>>
       ELSE /\ h_pc' = [h_pc EXCEPT ![h] = "a_scan"]
            /\ a_port' = [a_port EXCEPT ![h] = PortRangeStart]
            /\ a_seen' = [a_seen EXCEPT ![h] = @ \cup {a_port[h]}]
    /\ UNCHANGED <<regVars, procVars, failures, exe, response, listeners, denied, a_req,
                   a_status, fileVars, lock, spVars, monVars, h_name>>

\* the listener of the probe is dropped and is_port_in_use returns false:
\* the preferred port is the answer ("success"), or the port of the scan
\* ("reassigned")
AllocDrop(h) ==
    /\ h_pc[h] \in {"a_held", "a_sheld"}
    /\ a_status' = [a_status EXCEPT ![h] =
                       IF h_pc[h] = "a_held" THEN "success" ELSE "reassigned"]
    /\ h_pc' = [h_pc EXCEPT ![h] = "a_push"]
    /\ UNCHANGED <<regVars, procVars, failures, exe, response, listeners, denied, a_req,
                   a_seen, a_port, fileVars, lock, spVars, monVars, h_name>>

AllocScanDown(h) ==
    /\ h_pc[h] = "a_scan"
    /\ IF Bindable(PortRangeEnd)
       THEN /\ h_pc' = [h_pc EXCEPT ![h] = "a_sheld"]
            /\ a_port' = [a_port EXCEPT ![h] = PortRangeEnd]
            /\ UNCHANGED a_seen
       ELSE /\ h_pc' = [h_pc EXCEPT ![h] = "a_err"]
            /\ a_seen' = [a_seen EXCEPT ![h] = Ports]
            /\ UNCHANGED a_port
    /\ UNCHANGED <<regVars, procVars, failures, exe, response, listeners, denied, a_req,
                   a_status, fileVars, lock, spVars, monVars, h_name>>

\* find_available_port(6000, 7000), one port of `for port in start..=end`:
\* the bind of the port; on Ok the port is returned, on Err the next port
\* is tried, and None is returned (answered 500) after the last one
AllocScan(h) ==
    /\ h_pc[h] = "a_scan"
    /\ IF Bindable(a_port[h])
       THEN /\ h_pc' = [h_pc EXCEPT ![h] = "a_sheld"]
            /\ UNCHANGED <<a_port, a_seen>>
       ELSE /\ a_seen' = [a_seen EXCEPT ![h] = @ \cup {a_port[h]}]
            /\ IF a_port[h] < PortRangeEnd
               THEN /\ a_port' = [a_port EXCEPT ![h] = a_port[h] + 1]
                    /\ UNCHANGED h_pc
               ELSE /\ h_pc' = [h_pc EXCEPT ![h] = "a_err"]
                    /\ UNCHANGED a_port
    /\ UNCHANGED <<regVars, procVars, failures, exe, response, listeners, denied, a_req,
                   a_status, fileVars, lock, spVars, monVars, h_name>>

AllocPushReplace(h) ==
    /\ h_pc[h] = "a_push"
    /\ lock["state"] = Free
    /\ ports_in_use' = <<a_port[h]>>
    /\ h_pc' = [h_pc EXCEPT ![h] = "a_ret"]
    /\ UNCHANGED <<services, order, procVars, failures, exe, portVars, response,
                   fileVars, lock, spVars, monVars, h_name>>

\* lock WARDEN_STATE, `state.ports_in_use.push(port)`, drop the lock
AllocPush(h) ==
    /\ h_pc[h] = "a_push"
    /\ lock["state"] = Free
    /\ Len(ports_in_use) < MaxClaims
    /\ ports_in_use' = Append(ports_in_use, a_port[h])
    /\ h_pc' = [h_pc EXCEPT ![h] = "a_ret"]
    /\ UNCHANGED <<services, order, procVars, failures, exe, portVars, response,
                   fileVars, lock, spVars, monVars, h_name>>

\* port_check_handler: the port of the path is handed to is_port_in_use
CheckBegin(h, port) ==
    /\ Serving
    /\ h_pc[h] = "idle"
    /\ a_port' = [a_port EXCEPT ![h] = port]
    /\ h_pc' = [h_pc EXCEPT ![h] = "c_probe"]
    /\ UNCHANGED <<regVars, procVars, failures, exe, response, listeners, denied, a_req,
                   a_status, a_seen, fileVars, lock, spVars, monVars, h_name>>

\* the bind of is_port_in_use: on Ok the worker holds the listener, on Err
\* the answer is in_use = true
CheckProbe(h) ==
    /\ h_pc[h] = "c_probe"
    /\ IF Bindable(a_port[h])
       THEN /\ h_pc' = [h_pc EXCEPT ![h] = "c_held"]
            /\ UNCHANGED a_status
       ELSE /\ h_pc' = [h_pc EXCEPT ![h] = "c_ret"]
            /\ a_status' = [a_status EXCEPT ![h] = "in_use"]
    /\ UNCHANGED <<regVars, procVars, failures, exe, response, listeners, denied, a_req,
                   a_seen, a_port, fileVars, lock, spVars, monVars, h_name>>

\* the listener of the check is dropped: the answer is in_use = false
CheckDrop(h) ==
    /\ h_pc[h] = "c_held"
    /\ h_pc' = [h_pc EXCEPT ![h] = "c_ret"]
    /\ a_status' = [a_status EXCEPT ![h] = "free"]
    /\ UNCHANGED <<regVars, procVars, failures, exe, response, listeners, denied, a_req,
                   a_seen, a_port, fileVars, lock, spVars, monVars, h_name>>

\* the response of a port route is sent: 200 ("a_ret", "c_ret"), 400
\* ("a_bad"), 500 ("a_err")
PortReturn(h) ==
    /\ h_pc[h] \in {"a_ret", "a_bad", "a_err", "c_ret"}
    /\ h_pc' = [h_pc EXCEPT ![h] = "idle"]
    /\ a_req' = [a_req EXCEPT ![h] = NoPort]
    /\ a_port' = [a_port EXCEPT ![h] = PortRangeStart]
    /\ a_status' = [a_status EXCEPT ![h] = ""]
    /\ a_seen' = [a_seen EXCEPT ![h] = {}]
    /\ UNCHANGED <<regVars, procVars, failures, exe, response, listeners, denied,
                   fileVars, lock, spVars, monVars, h_name>>

PortHandler(h) ==
    \/ \E named \in BOOLEAN, pref \in PreferredPorts \cup {NoPort} :
          AllocBegin(h, named, pref)
    \/ AllocProbe(h) \/ AllocDrop(h) \/ AllocScan(h) \/ AllocPush(h)
    \/ \E port \in PortUniverse : CheckBegin(h, port)
    \/ CheckProbe(h) \/ CheckDrop(h)
    \/ PortReturn(h)

\* another program of the machine starts to listen on a port
Listen(port) ==
    /\ port \notin Held
    /\ listeners' = listeners \cup {port}
    /\ UNCHANGED <<regVars, procVars, failures, exe, response, denied, a_req, a_port,
                   a_status, a_seen, fileVars, lock, spVars, monVars, hVars>>

\* another program of the machine closes its listener
Close(port) ==
    /\ port \in listeners
    /\ listeners' = listeners \ {port}
    /\ UNCHANGED <<regVars, procVars, failures, exe, response, denied, a_req, a_port,
                   a_status, a_seen, fileVars, lock, spVars, monVars, hVars>>

Sockets == \E port \in PortUniverse : Listen(port) \/ Close(port)

\* -------------------------------------------------------- the environment
\* a tracked child exits by itself; its entry stays until overwritten or removed
Crash(n) ==
    /\ processes[n] = "live"
    /\ processes' = [processes EXCEPT ![n] = "dead"]
    /\ UNCHANGED <<regVars, orphans, failures, exe, portVars, response, fileVars, lock, spVars, monVars, hVars>>

\* an untracked child exits by itself
OrphanExit(n) ==
    /\ orphans[n] > 0
    /\ orphans' = [orphans EXCEPT ![n] = orphans[n] - 1]
    /\ UNCHANGED <<regVars, processes, failures, exe, portVars, response, fileVars, lock, spVars, monVars, hVars>>

\* the executable of a service appears or disappears, or spawning starts or
\* stops failing
ExeChange(n) ==
    /\ exe' = [exe EXCEPT ![n] = ~exe[n]]
    /\ UNCHANGED <<regVars, procVars, failures, portVars, response, fileVars, lock, spVars,
                   monVars, hVars>>

Environment ==
    \E n \in DOMAIN services : Crash(n) \/ OrphanExit(n) \/ ExeChange(n)

\* the persists that return Err
PersistErrors ==
    \/ MonPersistErr
    \/ \E h \in Handlers : EnPersistErr(h) \/ DiPersistErr(h)

Next ==
    \/ Spawner
    \/ Monitor
    \/ \E h \in Handlers : Handler(h) \/ PortHandler(h)
    \/ PersistErrors
    \/ Environment
    \/ Sockets

Spec == Init /\ [][Next]_vars

\* the threads that are inside an operation
Busy ==
    (IF s_pc \notin {"init", "done"} THEN {"main"} ELSE {})
    \cup (IF m_pc # "sleep" THEN {"mon"} ELSE {})
    \cup {h \in Handlers : h_pc[h] # "idle"}

\* the runs with a single HTTP worker whose startup is over when the first
\* tick begins (main starts spawning 1 s after the monitor thread began its
\* first 10 s sleep): no two admin calls overlap, no tick overlaps the startup
NextOne ==
    \/ Spawner
    \/ Serving /\ MonTick
    \/ MonitorSteps
    \/ Handler("h1")
    \/ Environment

SpecOne == Init /\ [][NextOne]_vars

\* the runs in which no two operations overlap: the startup spawner, each
\* monitor tick and each admin call run from begin to end on their own
Alone == Cardinality(Busy') <= 1

NextSeq ==
    \/ SpSnapshot /\ Alone
    \/ \E n \in Names : SpLockState(n) /\ Alone
    \/ SpLockProcs /\ Alone
    \/ SpSpawn /\ Alone
    \/ SpDelay /\ Alone
    \/ SpDone /\ Alone
    \/ MonTick /\ Alone
    \/ \E n \in Names : MonPoll(n) /\ Alone
    \/ MonLockState /\ Alone
    \/ \E healthy \in BOOLEAN : MonProbe(healthy) /\ Alone
    \/ MonRsStop /\ Alone
    \/ MonRsWait /\ Alone
    \/ MonRsSpawn /\ Alone
    \/ MonRsIns /\ Alone
    \/ MonRsState /\ Alone
    \/ MonStart /\ Alone
    \/ MonStIns /\ Alone
    \/ MonStState /\ Alone
    \/ MonPersist /\ Alone
    \/ \E h \in Handlers, n \in DOMAIN services \cup {Unknown} :
          EnBegin(h, n) /\ Alone
    \/ \E h \in Handlers, n \in DOMAIN services \cup {Unknown} :
          DiBegin(h, n) /\ Alone
    \/ \E h \in Handlers : EnPersist(h) /\ Alone
    \/ \E h \in Handlers : EnCheck(h) /\ Alone
    \/ \E h \in Handlers : EnSpawn(h) /\ Alone
    \/ \E h \in Handlers : EnIns(h) /\ Alone
    \/ \E h \in Handlers : EnState(h) /\ Alone
    \/ \E h \in Handlers : DiStop(h) /\ Alone
    \/ \E h \in Handlers : DiWait(h) /\ Alone
    \/ \E h \in Handlers : DiPersist(h) /\ Alone
    \/ \E h \in Handlers : Return(h) /\ Alone
    \/ Environment

SpecSeq == Init /\ [][NextSeq]_vars

\* the steps by which an operation that has begun goes on: the startup
\* spawner, the tick after its snapshot, the admin call after its first step
RunOn ==
    \/ Spawner /\ Alone
    \/ MonitorSteps /\ Alone
    \/ \E h \in Handlers :
          /\ \/ EnPersist(h) \/ EnCheck(h) \/ EnSpawn(h) \/ EnIns(h)
             \/ EnState(h) \/ DiStop(h) \/ DiWait(h) \/ DiPersist(h)
             \/ Return(h)
          /\ Alone

\* the runs of SpecSeq in which every operation that has begun runs on to its
\* end and the monitor's sleep of 10 s ends again and again: fair ticking
SpecLive ==
    /\ Init
    /\ [][NextSeq]_vars
    /\ WF_vars(RunOn)
    /\ SF_vars(MonTick /\ Alone)

\* a registry of two services as a hand-written file gives it to a first run:
\* nothing running, nothing probed yet, the services on different ports; B
\* has its executable, its full restart budget and no failed flag
TwoServices == {"A", "B"}

FreshRecords(n) ==
    {r \in ServiceConfig :
        /\ ~r.running /\ ~r.healthy
        /\ r.port = IF n = "A" THEN PortRangeStart ELSE PortRangeStart + 1
        /\ n = "B" => (~r.failed /\ r.boot_attempts = MaxBoot)}

InitTwo ==
    /\ services \in {s \in [TwoServices -> ServiceConfig] :
                        \A n \in TwoServices : s[n] \in FreshRecords(n)}
    /\ InitWith(TwoServices)
    /\ exe["B"]
    /\ NoListeners

\* service B is well-behaved: its process never exits by itself, it answers
\* every probe with true, its executable stays in place
QuietB ==
    /\ exe'["B"] = exe["B"]
    /\ processes'["B"] # "dead"
    /\ (m_pc = "probe" /\ m_cur = "B") => services'["B"].healthy

\* two services, the second one well-behaved and left alone by the admin,
\* one HTTP worker, no two operations overlapping
NextTwo ==
    \/ SpSnapshot /\ Alone
    \/ \E n \in Names : SpLockState(n) /\ Alone
    \/ SpLockProcs /\ Alone
    \/ SpSpawn /\ Alone
    \/ SpDelay /\ Alone
    \/ SpDone /\ Alone
    \/ MonTick /\ Alone
    \/ \E n \in Names : MonPoll(n) /\ Alone
    \/ MonLockState /\ Alone
    \/ \E healthy \in BOOLEAN : MonProbe(healthy) /\ QuietB /\ Alone
    \/ MonRsStop /\ Alone
    \/ MonRsWait /\ Alone
    \/ MonRsSpawn /\ Alone
    \/ MonRsIns /\ Alone
    \/ MonRsState /\ Alone
    \/ MonStart /\ Alone
    \/ MonStIns /\ Alone
    \/ MonStState /\ Alone
    \/ MonPersist /\ Alone
    \/ \E n \in {"A", Unknown} : EnBegin("h1", n) /\ Alone
    \/ \E n \in {"A", Unknown} : DiBegin("h1", n) /\ Alone
    \/ EnPersist("h1") /\ Alone
    \/ EnCheck("h1") /\ Alone
    \/ EnSpawn("h1") /\ Alone
    \/ EnIns("h1") /\ Alone
    \/ EnState("h1") /\ Alone
    \/ DiStop("h1") /\ Alone
    \/ DiWait("h1") /\ Alone
    \/ DiPersist("h1") /\ Alone
    \/ Return("h1") /\ Alone
    \/ Environment /\ QuietB

SpecTwo == InitTwo /\ [][NextTwo]_vars

\* ------------------------------------------- persisting and loading alone
\* the record a loaded ServiceConfig is stored as, under its name
Unnamed(r) ==
    [enabled |-> r.enabled, running |-> r.running, healthy |-> r.healthy,
     failed |-> r.failed, boot_attempts |-> r.boot_attempts, port |-> r.port]

LoadStepPartial ==
    /\ lock["state"] = Free
    /\ LET recs == LoadServicesConfig(
                       SelectSeq(file, LAMBDA j : DOMAIN j = FieldNames))
           last(n) == CHOOSE i \in DOMAIN recs :
                         /\ recs[i].name = n
                         /\ \A j \in DOMAIN recs : recs[j].name = n => j <= i
       IN  /\ services' = [n \in {recs[i].name : i \in DOMAIN recs}
                              |-> Unnamed(recs[last(n)])]
           /\ ports_in_use' = ClaimedAtLoad(recs)
    /\ order' \in Orders(DOMAIN services')
    /\ written' = FALSE
    /\ UNCHANGED <<file, p_err>>

\* initialize_from_config: `load_services_config(config_path)?` returns the
\* error of an unreadable file before the state is touched; else clear the
\* state, then insert every record of the file under its name (a later record
\* of the same name replaces an earlier one) and push the ports of the enabled
\* or running ones
LoadStep ==
    /\ lock["state"] = Free
    /\ IF Readable(file)
       THEN /\ LET recs == LoadServicesConfig(file)
                   last(n) == CHOOSE i \in DOMAIN recs :
                                 /\ recs[i].name = n
                                 /\ \A j \in DOMAIN recs :
                                       recs[j].name = n => j <= i
               IN  /\ services' = [n \in {recs[i].name : i \in DOMAIN recs}
                                      |-> Unnamed(recs[last(n)])]
                   /\ ports_in_use' = ClaimedAtLoad(recs)
            /\ order' \in Orders(DOMAIN services')
       ELSE UNCHANGED <<services, ports_in_use, order>>
    /\ written' = FALSE
    /\ UNCHANGED <<file, p_err>>

\* initialize_from_config on its own
InitializeFromConfig ==
    /\ LoadStep
    /\ UNCHANGED <<procVars, failures, exe, portVars, response, lock, spVars, monVars,
                   hVars>>

\* persist_to_config on its own
Persist ==
    /\ PersistStep
    /\ UNCHANGED <<regVars, procVars, failures, exe, portVars, response, lock, spVars, monVars, hVars>>

\* the registries of up to three records of a first run, on any ports
InitRT ==
    \E loaded \in SUBSET Names :
        /\ services \in [loaded -> {r \in ServiceConfig :
                                       /\ ~r.running /\ ~r.healthy /\ ~r.failed
                                       /\ r.boot_attempts = MaxBoot}]
        /\ InitWith(loaded)
        /\ NoListeners

NextRT == Persist \/ InitializeFromConfig

SpecRT == InitRT /\ [][NextRT]_vars

\* the runs with a single HTTP worker: ticks overlap the startup spawner and
\* the admin calls, no two admin calls overlap
NextStart ==
    \/ Spawner
    \/ Monitor
    \/ Handler("h1")
    \/ Environment

SpecStart == Init /\ [][NextStart]_vars

\* the runs of SpecSeq on a disk that can refuse a write: every
\* persist_to_config of the monitor and of the admin calls may return Err
NextDisk ==
    \/ NextSeq
    \/ MonPersistErr /\ Alone
    \/ \E h \in Handlers : EnPersistErr(h) /\ Alone
    \/ \E h \in Handlers : DiPersistErr(h) /\ Alone

SpecDisk == Init /\ [][NextDisk]_vars

\* the port routes on their own: the registry is loaded from a first-run
\* file of the one service A, the process may be refused one port, one HTTP
\* worker serves allocate and port/check while other programs open and close
\* listeners
InitPorts ==
    /\ services \in [{"A"} -> FreshRecords("A")]
    /\ InitWith({"A"})
    /\ \A n \in Names : exe[n]
    /\ listeners = {}
    /\ denied \in SUBSET {OtherPort}

NextPorts ==
    \/ Spawner
    \/ PortHandler("h1")
    \/ Sockets

SpecPorts == InitPorts /\ [][NextPorts]_vars

\* the runs in which no two operations overlap, with the port routes among
\* the admin calls: a first-run registry of the one service A, enabled and
\* with its full restart budget, another program listening on the first port
\* of the range or on all of them
NextAdmin ==
    \/ NextSeq
    \/ PortHandler("h1") /\ Alone

InitAdmin ==
    /\ services \in [{"A"} -> {r \in FreshRecords("A") :
                                  /\ r.enabled /\ ~r.failed
                                  /\ r.boot_attempts = MaxBoot}]
    /\ InitWith({"A"})
    /\ exe["A"]
    /\ listeners \in {{PortRangeStart}, Ports}
    /\ denied = {}

SpecAdmin == InitAdmin /\ [][NextAdmin]_vars

\* the ticks with the probe given by what the service answers: the startup
\* spawner, then ticks over service A, whose process may exit at any time
NextProbe ==
    \/ Spawner
    \/ Serving /\ MonTick
    \/ \E n \in Names : MonPoll(n)
    \/ MonLockState
    \/ \E resp \in Responses : MonProbeOf(resp)
    \/ MonRsStop \/ MonRsWait \/ MonRsSpawn \/ MonRsIns \/ MonRsState
    \/ MonStart \/ MonStIns \/ MonStState
    \/ MonPersist
    \/ \E n \in DOMAIN services : Crash(n)

SpecProbe == Init /\ [][NextProbe]_vars

\* ------------------------------------------------------------- the startup
\* main: `match initialize_from_config(&config_path)`; Ok and Err are both
\* followed by monitor_services_loop() and start_enabled_services()
MainLoad ==
    /\ s_pc = "load"
    /\ LoadStep
    /\ s_pc' = "init"
    /\ UNCHANGED <<procVars, failures, exe, portVars, response, lock, s_todo, s_cur,
                   monVars, hVars>>

\* the records of a first-run file with the full restart budget: service A
\* and the supervisor's own record, each enabled or not
BootRegistries ==
    {s \in [{"A", Warden} -> ServiceConfig] :
        \A n \in DOMAIN s : /\ s[n] \in FreshRecords(n)
                            /\ ~s[n].failed
                            /\ s[n].boot_attempts = MaxBoot}

\* the runs of SpecSeq on the registry of a first run that holds service A,
\* enabled, and the supervisor's own record; the supervisor's executable is
\* in place, as it is while the supervisor runs
InitSelf ==
    /\ services \in {s \in BootRegistries : s["A"].enabled}
    /\ InitWith({"A", Warden})
    /\ exe[Warden]
    /\ NoListeners

\* the supervisor's executable stays in place and its process does not exit
NextSelf ==
    /\ NextSeq
    /\ exe'[Warden]
    /\ processes'[Warden] # "dead"

SpecSelf == InitSelf /\ [][NextSelf]_vars

\* the registry files the supervisor is started on: an array of the two
\* records, an array whose second object is cut off, and no file at all
BootFiles ==
    {<<JsonOf("A", s["A"]), JsonOf(Warden, s[Warden])>> : s \in BootRegistries}
    \cup {<<JsonOf("A", s["A"]), Truncated(Warden)>> : s \in BootRegistries}
    \cup {NoFile}

\* the process before initialize_from_config: WardenState::default() is an
\* empty map and an empty Vec, no thread is started
InitBoot ==
    /\ services = [n \in {} |-> 0]
    /\ order = << >>
    /\ ports_in_use = << >>
    /\ file \in BootFiles
    /\ written = FALSE
    /\ p_err = [t \in Threads |-> FALSE]
    /\ processes = [n \in Names |-> "none"]
    /\ orphans = [n \in Names |-> 0]
    /\ failures = [n \in Names |-> 0]
    /\ exe \in [Names -> BOOLEAN]
    /\ exe[Warden]
    /\ lock = [l \in {"state", "procs"} |-> Free]
    /\ s_pc = "load" /\ s_todo = {} /\ s_cur = "A"
    /\ m_pc = "sleep" /\ m_todo = {} /\ m_cur = "A" /\ m_alive = FALSE
    /\ m_stale = FALSE /\ m_err = FALSE
    /\ h_pc = [h \in Handlers |-> "idle"]
    /\ h_name = [h \in Handlers |-> NoName]
    /\ a_req = [h \in Handlers |-> NoPort]
    /\ a_port = [h \in Handlers |-> PortRangeStart]
    /\ a_status = [h \in Handlers |-> ""]
    /\ a_seen = [h \in Handlers |-> {}]
    /\ response = NoResponse
    /\ NoListeners

\* the startup: the load, then the monitor thread and the startup spawner
\* side by side, then the HTTP server, asked about a name it has no record of
NextBoot ==
    \/ MainLoad
    \/ Spawner
    \/ s_pc # "load" /\ Monitor
    \/ EnBegin("h1", Unknown)
    \/ DiBegin("h1", Unknown)
    \/ Return("h1")
    \/ Environment

SpecBoot == InitBoot /\ [][NextBoot]_vars

TypeOK ==
    /\ services \in [DOMAIN services -> ServiceConfig]
    /\ order \in Orders(DOMAIN services)
    /\ (Readable(file) /\ s_pc # "load") =>
          \A i \in DOMAIN file : FromJson(file[i]).name \in DOMAIN services
    /\ ports_in_use \in Seq(PortUniverse)
    /\ processes \in [Names -> {"none", "live", "dead"}]
    /\ orphans \in [Names -> 0..MaxOrphans]
    /\ failures \in [Names -> 0..MaxFailures]
    /\ exe \in [Names -> BOOLEAN]
    /\ lock \in [{"state", "procs"} -> Threads \cup {Free}]
    /\ listeners \subseteq PortUniverse
    /\ denied \subseteq PortUniverse
    /\ a_req \in [Handlers -> PreferredPorts \cup {NoPort}]
    /\ a_port \in [Handlers -> PortUniverse]
    /\ a_status \in [Handlers ->
                       {"", "success", "reassigned", "in_use", "free"}]
    /\ a_seen \in [Handlers -> SUBSET PortUniverse]
    /\ response \in Responses \cup {NoResponse}
    /\ written \in BOOLEAN
    /\ p_err \in [Threads -> BOOLEAN]

\* ================================================================ claims
\* the steps of the forced restart in the monitor
RestartPcs == {"rs_stop", "rs_wait", "rs_spawn", "rs_ins", "rs_state"}

\* no operation is in flight: startup is over, the monitor sleeps between two
\* ticks, no admin call is being served
Quiet == Serving /\ Busy = {}

\* C1: a service name never has more than one live spawned process at the
\* same time, tracked or not.
C1_AtMostOneLive == \A n \in Names : LiveCount(n) <= 1

\* C2: a record with enabled = false ends up, and stays, with running = false,
\* no tracked handle and no live process.  Once nothing is in flight, a
\* disabled record is touched by no tick, so whatever is left then stays for
\* good unless a further admin call is made: stated on the quiet states.
C2_DisabledIsStopped ==
    \A n \in DOMAIN services :
        (Quiet /\ ~services[n].enabled) =>
            /\ ~services[n].running
            /\ processes[n] = "none"
            /\ LiveCount(n) = 0

\* C3: when disable(name) returns for a known service, the record has
\* enabled = false, running = false, healthy = false and no handle is tracked
\* for name.
C3_DisableResult ==
    \A h \in Handlers :
        h_pc[h] = "d_ret" =>
            /\ ~services[h_name[h]].enabled
            /\ ~services[h_name[h]].running
            /\ ~services[h_name[h]].healthy
            /\ processes[h_name[h]] = "none"

\* a monitor step in which a probe of m_cur returned a failure
ProbeFailedStep == m_pc = "probe" /\ m_pc' # "probe" /\ ~services'[m_cur].healthy

\* a monitor step that ends a forced restart
RestartEndStep == m_pc \in RestartPcs /\ m_pc' = "next"

\* what a failed probe leads to: the 1st and the 2nd in a row to no stop and
\* no spawn, the 3rd with bootAttempts > 0 to the forced restart
StrikesCounted ==
    ProbeFailedStep =>
        /\ failures[m_cur] < RestartThreshold - 1 => m_pc' = "next"
        /\ (failures[m_cur] = RestartThreshold - 1
              /\ services[m_cur].boot_attempts > 0) => m_pc' = "rs_stop"

\* a forced restart is one stop_service followed by one start_service
OneStopOneSpawn ==
    (m_pc \in RestartPcs /\ m_pc' # m_pc) =>
        <<m_pc, m_pc'>> \in {<<"rs_stop", "rs_wait">>, <<"rs_stop", "rs_spawn">>,
                            <<"rs_wait", "rs_spawn">>, <<"rs_spawn", "rs_ins">>,
                            <<"rs_spawn", "next">>, <<"rs_ins", "rs_state">>,
                            <<"rs_state", "next">>}

\* C4 as claimed: with bootAttempts > 0, the 1st and 2nd consecutive failed
\* probe cause no stop and no spawn, the 3rd begins a forced restart of one
\* stop and one spawn, and every forced restart ends with bootAttempts one
\* lower and the failure counter at 0.
C4_ThreeStrikes ==
    [][/\ StrikesCounted
       /\ OneStopOneSpawn
       /\ RestartEndStep =>
            /\ services'[m_cur].boot_attempts = services[m_cur].boot_attempts - 1
            /\ failures'[m_cur] = 0]_vars

\* C4 for what the code does (holds under Spec): the same, but bootAttempts
\* goes down by one and the failure counter back to 0 only when the spawn of
\* the forced restart succeeds; when start_service fails, both keep their
\* values and no handle is inserted.
C4_ThreeStrikesOnSpawn ==
    [][/\ StrikesCounted
       /\ OneStopOneSpawn
       /\ RestartEndStep =>
            IF m_pc = "rs_state"
            THEN /\ services'[m_cur].boot_attempts
                      = services[m_cur].boot_attempts - 1
                 /\ failures'[m_cur] = 0
            ELSE /\ m_pc = "rs_spawn" /\ ~exe[m_cur]
                 /\ services'[m_cur].boot_attempts
                      = services[m_cur].boot_attempts
                 /\ failures'[m_cur] = failures[m_cur]
                 /\ processes' = processes]_vars

\* C5: with bootAttempts = 0 the monitor is never in a forced restart of the
\* service: failed probes, however many, make it neither stop nor spawn.
C5_NoRestartAtZero ==
    m_pc \in RestartPcs => services[m_cur].boot_attempts > 0

\* C5 witness: a tracked live process with no budget left whose probe just
\* failed for the fourth time or later in a row, and the monitor moved on.
C5_Witness ==
    /\ m_pc = "next" /\ m_alive
    /\ services[m_cur].boot_attempts = 0
    /\ ~services[m_cur].healthy
    /\ failures[m_cur] > RestartThreshold
    /\ processes[m_cur] = "live"

\* C6: when enable(name) returns for a known service whose executable can be
\* launched, the record has enabled = true, failed = false, running = true
\* and a handle is tracked for name.
C6_EnableResult ==
    \A h \in Handlers :
        (h_pc[h] = "e_ret" /\ exe[h_name[h]]) =>
            /\ services[h_name[h]].enabled
            /\ ~services[h_name[h]].failed
            /\ services[h_name[h]].running
            /\ processes[h_name[h]] # "none"

\* the mutex thread t is blocked on or will lock next, "" for none
WaitsFor(t) ==
    CASE t = "mon" ->
            IF m_pc \in {"sleep", "lockstate", "rs_state", "st_state"} THEN "state"
            ELSE IF m_pc \in {"rs_stop", "rs_ins", "st_ins"} THEN "procs"
            ELSE IF m_pc = "next" THEN (IF m_todo = {} THEN "state" ELSE "procs")
            ELSE ""
      [] t = "main" ->
            IF s_pc = "init" \/ (s_pc = "next" /\ s_todo # {}) THEN "state"
            ELSE IF s_pc = "lockprocs" THEN "procs"
            ELSE ""
      [] OTHER ->
            IF h_pc[t] \in {"e_persist", "e_state", "d_persist"} THEN "state"
            ELSE IF h_pc[t] \in {"e_check", "e_ins", "d_stop"} THEN "procs"
            ELSE ""

\* two threads each hold the mutex the other one waits for
LockCycle ==
    \E t, u \in Threads :
        /\ t # u
        /\ WaitsFor(t) # "" /\ WaitsFor(u) # ""
        /\ lock[WaitsFor(t)] = u
        /\ lock[WaitsFor(u)] = t

\* C7: the monitor always gets on to its next tick; in particular no two
\* threads ever each hold one of the locks while waiting for the other's.
C7_NoLockCycle == ~LockCycle

\* C8: while the monitor waits for a probe response the registry lock is free.
C8_ProbeWithoutRegistryLock == m_pc = "probe" => lock["state"] = Free

\* the threads that are spawning a process, sleeping or waiting inside
\* stop_service, or sleeping between two service starts
Blocking ==
    (IF s_pc \in {"spawning", "delay"} THEN {"main"} ELSE {})
    \cup (IF m_pc \in {"rs_wait", "rs_spawn", "start"} THEN {"mon"} ELSE {})
    \cup {h \in Handlers : h_pc[h] \in {"e_spawn", "d_wait"}}

\* C9: a thread that spawns, sleeps in or waits in a stop, or sleeps between
\* service starts holds neither the registry lock nor the handle-table lock.
C9_NoLockAcrossBlocking ==
    \A t \in Blocking : \A l \in DOMAIN lock : lock[l] # t

\* C10: a tick never writes back a liveness observation taken before an admin
\* call wrote the record: no write of the polled value changes running after
\* an admin call has written running since the poll.
C10_NoStaleWriteBack ==
    [][(m_pc = "lockstate" /\ m_pc' # "lockstate" /\ m_stale)
         => services'[m_cur].running = services[m_cur].running]_vars

\* the threads that have removed the handle of n in stop_service and are in
\* its sleep or in child.wait()
Stoppers(n) ==
    (IF m_pc = "rs_wait" /\ m_cur = n THEN {"mon"} ELSE {})
    \cup {h \in Handlers : h_pc[h] = "d_wait" /\ h_name[h] = n}

\* C11: stop_service removes the handle before it sleeps and waits, so at
\* most one thread kills and waits on a handle of a name at a time, and the
\* table holds no entry for the name while that thread waits: a concurrent
\* stop of the same name finds nothing to kill.
C11_OneStopperPerHandle ==
    \A n \in Names :
        /\ Cardinality(Stoppers(n)) <= 1
        /\ Stoppers(n) # {} => processes[n] = "none"

\* C11 witness: a disable waits for the child it removed while the monitor's
\* forced restart of the same service is about to call stop_service.
C11_Witness ==
    /\ m_pc = "rs_stop"
    /\ h_pc["h1"] = "d_wait"
    /\ h_name["h1"] = m_cur

\* C12: a tick polls every service that was enabled when it began, whatever
\* fails on the way: the snapshot is the set of enabled services, a service
\* leaves the snapshot only by being polled, and the tick ends only when the
\* snapshot is used up.
C12_TickPollsAll ==
    [][/\ (m_pc = "sleep" /\ m_pc' # "sleep") => m_todo' = EnabledServices
       /\ (m_pc # "sleep" /\ m_todo' # m_todo) =>
             /\ m_pc = "next" /\ m_pc' = "lockstate"
             /\ m_cur' \in m_todo /\ m_todo' = m_todo \ {m_cur'}
       /\ (m_pc # "sleep" /\ m_pc' = "sleep") => m_todo = {}]_vars

\* C12 witness: a probe or a launch failed in the tick in progress, and the
\* tick has gone on to poll the other service after it.
C12_Witness ==
    /\ m_err
    /\ m_pc = "lockstate"
    /\ m_todo = {}
    /\ Cardinality(EnabledServices) = 2

\* what a disable of n that ran alone leaves behind
Disabled(n) ==
    /\ ~services[n].enabled /\ ~services[n].running /\ ~services[n].healthy
    /\ processes[n] = "none"
    /\ file = PersistToConfig

\* a step of disable_service_handler for a known name, taken by worker h
DisableStep(h) ==
    /\ h_pc'[h] # h_pc[h]
    /\ h_pc'[h] \in {"d_stop", "d_wait", "d_persist", "d_ret"}

\* C13: disable is idempotent.  A disable that ran alone returns in a state
\* Disabled(name), and every step of a disable made in such a state leaves
\* the registry, the handle table, the failure counters and the file as they
\* are and waits for no process.
C13_DisableIdempotent ==
    [][\A h \in Handlers :
          /\ h_pc[h] = "d_ret" => Disabled(h_name[h])
          /\ (DisableStep(h) /\ Disabled(h_name'[h])) =>
                /\ UNCHANGED <<services, ports_in_use, order, processes,
                               orphans, failures, file>>
                /\ h_pc'[h] # "d_wait"]_vars

\* C13 witness: a disable of a service that is already disabled, stopped and
\* persisted has gone through stop_service and is about to persist.
C13_Witness ==
    \E h \in Handlers :
        /\ h_pc[h] = "d_persist"
        /\ Disabled(h_name[h])
        /\ lock["procs"] = Free

\* a step in which start_service returned an error, with the service it was for
LaunchFailedFor(n) ==
    \/ s_pc = "spawning" /\ s_pc' = "delay" /\ s_cur = n /\ ~exe[n]
    \/ m_pc \in {"start", "rs_spawn"} /\ m_pc' = "next" /\ m_cur = n
    \/ \E h \in Handlers :
          h_pc[h] = "e_spawn" /\ h_pc'[h] = "e_fail" /\ h_name[h] = n

\* a step in which the startup spawner or the monitor calls start_service
AutoLaunchFor(n) ==
    \/ s_pc = "spawning" /\ s_pc' = "delay" /\ s_cur = n
    \/ m_pc \in {"start", "rs_spawn"} /\ m_pc' # m_pc /\ m_cur = n

\* C14: every failed launch, in the startup spawner, in a tick and in enable,
\* leaves the record with failed = true, and neither the spawner nor the
\* monitor calls start_service for a record whose failed flag is set.
C14_LaunchFailureMarksFailed ==
    [][\A n \in DOMAIN services :
          /\ LaunchFailedFor(n) => services'[n].failed
          /\ AutoLaunchFor(n) => ~services[n].failed]_vars

\* the restart budget of n is used up while its process is alive and has
\* failed its probes RestartThreshold times or more in a row
CircuitBroken(n) ==
    /\ services[n].boot_attempts = 0
    /\ processes[n] = "live"
    /\ ~services[n].healthy
    /\ failures[n] >= RestartThreshold

\* C15: an enable call revives a circuit-broken service: when the handler
\* has looked at the handle table for such a service, it goes on to start
\* its process.
C15_EnableRevives ==
    [][\A h \in Handlers :
          (h_pc[h] = "e_check" /\ h_pc'[h] # "e_check"
             /\ CircuitBroken(h_name[h])) => h_pc'[h] = "e_spawn"]_vars

\* a step of enable_service_handler for a known name, taken by worker h
EnableStep(h) ==
    /\ h_pc'[h] # h_pc[h]
    /\ \/ h_pc'[h] \in {"e_persist", "e_check", "e_spawn", "e_ins", "e_state",
                         "e_ret", "e_fail"}
       \/ h_pc[h] \in {"e_ret", "e_fail"}

\* the name of the request worker h is serving during a step
Serves(h) == IF h_pc[h] = "idle" THEN h_name'[h] ELSE h_name[h]

\* C16: an enable call writes nothing but enabled, failed and running of the
\* named record: bootAttempts, port and healthy of that record, every other
\* record, the failure counters and the claimed ports stay as they are.
C16_EnableFrame ==
    [][\A h \in Handlers :
          EnableStep(h) =>
            /\ DOMAIN services' = DOMAIN services
            /\ \A n \in DOMAIN services \ {Serves(h)} :
                  services'[n] = services[n]
            /\ services'[Serves(h)].boot_attempts
                  = services[Serves(h)].boot_attempts
            /\ services'[Serves(h)].port = services[Serves(h)].port
            /\ services'[Serves(h)].healthy = services[Serves(h)].healthy
            /\ failures' = failures
            /\ ports_in_use' = ports_in_use]_vars

\* C16 witness: an enable call has started service A, whose restart budget
\* is used up and whose failure counter is not 0, next to a second record.
C16_Witness ==
    /\ h_pc["h1"] = "e_ret" /\ h_name["h1"] = "A"
    /\ services["A"].running /\ processes["A"] = "live"
    /\ services["A"].boot_attempts = 0
    /\ failures["A"] > 0
    /\ "B" \in DOMAIN services

\* C17: an enable or disable call for a name that is not in the registry is
\* answered NotFound and changes nothing: no record, no handle, no counter,
\* no claimed port and not the registry file.
C17_UnknownChangesNothing ==
    [][\A h \in Handlers :
          (h_pc'[h] # h_pc[h] /\ Serves(h) \notin DOMAIN services) =>
            /\ h_pc'[h] = IF h_pc[h] = "idle" THEN "nf_ret" ELSE "idle"
            /\ UNCHANGED <<services, ports_in_use, order, file, processes,
                           orphans, failures, lock>>]_vars

\* C17 witness: a call for an unknown name is about to be answered NotFound
\* while the file is behind the registry, so that a persist would show.
C17_Witness ==
    \E h \in Handlers :
        /\ h_pc[h] = "nf_ret"
        /\ h_name[h] = Unknown
        /\ written
        /\ file # PersistToConfig

\* the names of the records in the registry file
FileNames == {file[i].name : i \in DOMAIN file}

\* C18: once the registry is loaded, no step of a tick, of the startup
\* spawner or of an admin call adds or removes a record, and every persist
\* writes each name once.
C18_NamesFixed ==
    [][/\ DOMAIN services' = DOMAIN services
       /\ FileNames' = DOMAIN services
       /\ Len(file') = Cardinality(DOMAIN services)]_vars

\* C18 witness: the record of a failed service whose process is gone is still
\* there after a tick has looked at it and a disable call was made for it.
C18_Witness ==
    /\ h_pc["h1"] = "d_ret" /\ h_name["h1"] \in DOMAIN services
    /\ m_pc = "next" /\ m_cur = h_name["h1"] /\ ~m_alive
    /\ services[m_cur].failed

\* the (name, port, enabled) tuples of a loaded Vec<ServiceConfig>
Tuples(recs) == {<<recs[i].name, recs[i].port, recs[i].enabled>> : i \in DOMAIN recs}

\* C19: whenever the file is what persist_to_config writes for the registry
\* in memory, loading it yields as many records as the registry holds, with
\* the same (name, port, enabled) tuples, in non-decreasing order of port.
C19_RoundTrip ==
    file = PersistToConfig =>
        LET recs == LoadServicesConfig(file)
        IN  /\ Len(recs) = Cardinality(DOMAIN services)
            /\ Tuples(recs) = Tuples([i \in DOMAIN order |-> Named(order[i])])
            /\ \A i, j \in DOMAIN recs : i < j => recs[i].port <= recs[j].port

\* C19 witness: a registry of three records, two of them on the same port,
\* which the map does not yield in order of port, has been persisted.
C19_Witness ==
    /\ written
    /\ file = PersistToConfig
    /\ Len(order) = 3
    /\ \E i, j \in DOMAIN order :
          i < j /\ services[order[i]].port > services[order[j]].port
    /\ \E n, k \in DOMAIN services : n # k /\ services[n].port = services[k].port

\* C20: when an enable or a disable call returns, the registry file holds the
\* records as they are in memory, the running flag the call set included.
C20_AdminPersisted ==
    \A h \in Handlers :
        h_pc[h] \in {"e_ret", "e_fail", "d_ret"} =>
            /\ written
            /\ LoadServicesConfig(file) = LoadServicesConfig(PersistToConfig)

\* C21: after the startup load the Vec of claimed ports only grows.  Every
\* step of a monitor tick, of the startup spawner and of an admin call
\* (allocate, enable, disable, port/check) keeps the Vec it finds as a prefix
\* of the Vec it leaves, and the only step that changes it is the push of an
\* allocate call, which appends the port of that call.
C21_ClaimsOnlyGrow ==
    [][/\ Len(ports_in_use') >= Len(ports_in_use)
       /\ SubSeq(ports_in_use', 1, Len(ports_in_use)) = ports_in_use
       /\ ports_in_use' # ports_in_use =>
            \E h \in Handlers :
                /\ h_pc[h] = "a_push" /\ h_pc'[h] = "a_ret"
                /\ ports_in_use' = Append(ports_in_use, a_port[h])]_vars

\* C21 witness: a disable call returns, and a monitor tick has persisted,
\* after allocate calls have filled the Vec of claimed ports.
C21_Witness ==
    /\ \E h \in Handlers : h_pc[h] = "d_ret" /\ h_name[h] = "A"
    /\ Len(ports_in_use) = MaxClaims
    /\ failures["A"] > 0

\* the ports of the Vec of claimed ports
Claimed == {ports_in_use[i] : i \in DOMAIN ports_in_use}

\* C22: allocate never hands out a port that is already recorded, so the
\* Vec of claimed ports holds no port twice.  Stated for the runs whose
\* load claimed no port (service A disabled), where every recorded port
\* was handed out by an allocate call.
C22_NoPortTwice ==
    ~services["A"].enabled =>
        \A i, j \in DOMAIN ports_in_use :
            ports_in_use[i] = ports_in_use[j] => i = j

\* C23: allocate answers with the preferred port when its bind succeeded
\* and else with the lowest port of the range whose bind succeeded.  With
\* the preferred port taken as the u16 the handler reads: a call that
\* answers "success" carries the preferred port and saw no bind fail; a call
\* that answers "reassigned" saw the bind of the preferred port fail, carries
\* a port of the range and saw the bind of every lower port of the range,
\* and of no other port, fail; the port was bindable when probed (while the worker holds the
\* listener of the probe nobody else has the port); a call that answers 500
\* saw every bind fail; and the port of an answered call is the one that was
\* appended to the Vec of claimed ports.
C23_AllocateResult ==
    \A h \in Handlers :
        /\ (h_pc[h] \in {"a_push", "a_ret"} /\ a_status[h] = "success") =>
              a_port[h] = AsU16(a_req[h]) /\ a_seen[h] = {}
        /\ (h_pc[h] \in {"a_push", "a_ret"} /\ a_status[h] = "reassigned") =>
              /\ AsU16(a_req[h]) \in a_seen[h]
              /\ a_port[h] \in Ports
              /\ a_seen[h] \ {AsU16(a_req[h])} \subseteq
                    {p \in Ports : p < a_port[h]}
              /\ {p \in Ports : p < a_port[h]} \subseteq a_seen[h]
        /\ h_pc[h] \in {"a_held", "a_sheld"} =>
              a_port[h] \notin listeners \cup denied
        /\ h_pc[h] = "a_err" =>
              Ports \cup {AsU16(a_req[h])} \subseteq a_seen[h]
        /\ h_pc[h] = "a_ret" =>
              /\ ports_in_use # << >>
              /\ ports_in_use[Len(ports_in_use)] = a_port[h]

\* C23 witness: an allocate call whose preferred port was in use answers
\* with the last port of the range, after the scan stepped over the others.
C23_Witness ==
    \E h \in Handlers :
        /\ h_pc[h] = "a_ret"
        /\ a_status[h] = "reassigned"
        /\ a_port[h] = PortRangeEnd
        /\ AsU16(a_req[h]) # PortRangeStart

\* C24: an allocate call that answers without reassignment reports and
\* records the preferred_port of the request, whatever non-negative integer
\* that is.
C24_ReportsPreferred ==
    \A h \in Handlers :
        (h_pc[h] = "a_ret" /\ a_status[h] = "success") =>
            /\ a_port[h] = a_req[h]
            /\ ports_in_use[Len(ports_in_use)] = a_req[h]

\* the steps of an allocate call that does not answer 200: from the request
\* to the 400, or through the probe and the scan to the 500, and the
\* sending of either
FailingPath(h) ==
    \/ h_pc[h] = "idle" /\ h_pc'[h] \in {"a_bad", "a_probe"}
    \/ h_pc[h] = "a_probe" /\ h_pc'[h] = "a_scan"
    \/ h_pc[h] = "a_scan" /\ h_pc'[h] \in {"a_scan", "a_err"}
    \/ h_pc[h] \in {"a_bad", "a_err"} /\ h_pc'[h] = "idle"

\* C25: an allocate call that fails leaves the claimed ports and the
\* registry as they are.  The 400 is reached from the request alone, the
\* 500 from the scan alone, the scan from the probe of the preferred port,
\* the probe from a request that carries a preferred_port, and every step
\* on these paths leaves the Vec of claimed ports, the registry and the
\* registry file unchanged.
C25_FailureChangesNothing ==
    [][\A h \in Handlers :
          /\ h_pc'[h] # h_pc[h] =>
                /\ h_pc'[h] = "a_bad" => h_pc[h] = "idle"
                /\ h_pc'[h] = "a_err" => h_pc[h] = "a_scan"
                /\ h_pc'[h] = "a_scan" => h_pc[h] = "a_probe"
                /\ h_pc'[h] = "a_probe" =>
                      h_pc[h] = "idle" /\ a_req'[h] # NoPort
          /\ FailingPath(h) =>
                UNCHANGED <<services, ports_in_use, order, file, processes,
                            failures>>]_vars

\* C25 witness: an allocate call is about to answer 500 while ports are
\* claimed, and the process was refused a port.
C25_Witness ==
    \E h \in Handlers :
        /\ h_pc[h] = "a_err"
        /\ ports_in_use # << >>
        /\ a_seen[h] \cap denied # {}

\* C26: port/check reports in use exactly when some listener holds the
\* port at the moment of the probe, and the check keeps no binding: the
\* probe answers in_use = true if and only if a socket is bound to the port,
\* and a worker that has answered holds no listener.
C26_CheckReportsListeners ==
    [][\A h \in Handlers :
          /\ (h_pc[h] = "c_probe" /\ h_pc'[h] # "c_probe") =>
                ((h_pc'[h] = "c_ret" /\ a_status'[h] = "in_use")
                    <=> a_port[h] \in Held)
          /\ h_pc'[h] \in {"c_ret", "idle"} => h \notin Probing']_vars

\* C27: the startup spawner spawns only for enabled records other than the
\* supervisor's own, and at most once for each.  The record the spawner is
\* working on is enabled, is not the supervisor's and has left the list of
\* those still to start; that list is filled once, by the snapshot, and only
\* loses names afterwards; the spawner does not run again once it is done;
\* and until the HTTP server runs, no record that is disabled or is the
\* supervisor's own has a process.
C27_StartupSpawnsEnabledOnce ==
    [][/\ s_pc' \in {"lockprocs", "spawning", "delay"} =>
            /\ s_cur' \in DOMAIN services'
            /\ services'[s_cur'].enabled
            /\ s_cur' # Warden
            /\ s_cur' \notin s_todo'
       /\ s_todo' # s_todo =>
            \/ s_pc = "init"
            \/ s_cur' \in s_todo /\ s_todo' = s_todo \ {s_cur'}
       /\ s_pc' = "init" => s_pc \in {"load", "init"}
       /\ s_pc = "done" => s_pc' = "done"
       /\ ~Serving' =>
            \A n \in DOMAIN services' :
                (~services'[n].enabled \/ n = Warden) =>
                    processes'[n] = "none" /\ orphans'[n] = 0]_vars

\* C27 witness: the startup spawner has started service A and is done, and
\* the supervisor's own record, enabled as well, has no process.
C27_Witness ==
    /\ s_pc = "done"
    /\ processes["A"] = "live"
    /\ Warden \in DOMAIN services
    /\ services[Warden].enabled
    /\ processes[Warden] = "none"
    /\ m_pc = "sleep" /\ ~written

\* C28: a registry file that is missing or malformed leaves the supervisor
\* with an empty registry and no claimed port, and the startup goes on.  The
\* load of an unreadable file ends with an empty map and an empty Vec and
\* hands over to the monitor thread and the startup spawner; and while the
\* registry is empty no process exists and nothing is queued for a start.
C28_BadFileEmptyRegistry ==
    [][/\ (s_pc = "load" /\ ~Readable(file)) =>
            /\ s_pc' = "init"
            /\ DOMAIN services' = {}
            /\ ports_in_use' = << >>
       /\ DOMAIN services' = {} =>
            /\ \A n \in Names : processes'[n] = "none" /\ orphans'[n] = 0
            /\ s_todo' = {} /\ m_todo' = {}
            /\ ports_in_use' = << >>]_vars

\* C28 witness: started on a file that cannot be read, the supervisor has
\* finished the startup, its monitor is at the end of a tick and its HTTP
\* server is answering a call.
C28_Witness ==
    /\ ~Readable(file)
    /\ DOMAIN services = {}
    /\ Serving
    /\ m_pc = "next"
    /\ h_pc["h1"] = "nf_ret"

\* service n should be running and can be: enabled, not failed, executable
\* in place
Launchable(n) ==
    /\ n \in DOMAIN services
    /\ n # Warden
    /\ services[n].enabled
    /\ ~services[n].failed
    /\ exe[n]

\* C29: a tick that finds no live process for an enabled, non-failed service
\* with a launchable executable spawns it and sets running = true, and so,
\* under fair ticking, a crashed service of that kind gets a live process
\* again, whatever its boot_attempts.  After try_wait found the handle
\* missing or exited, an enabled and non-failed record goes to start_service;
\* with the executable in place the child is inserted and running is set;
\* and a launchable service without a live process leads to a live process,
\* unless it stops being launchable.
C29_CrashedIsRestarted ==
    /\ [][/\ (m_pc = "lockstate" /\ m_pc' # m_pc /\ ~m_alive
                /\ services[m_cur].enabled /\ ~services[m_cur].failed) =>
                  m_pc' = "start"
          /\ (m_pc = "start" /\ m_pc' # m_pc /\ exe[m_cur]) =>
                  m_pc' = "st_ins"
          /\ (m_pc = "st_ins" /\ m_pc' # m_pc) =>
                  processes'[m_cur] = "live" /\ m_pc' = "st_state"
          /\ (m_pc = "st_state" /\ m_pc' # m_pc) =>
                  services'[m_cur].running]_vars
    /\ \A n \in Names :
          (Launchable(n) /\ processes[n] # "live")
              ~> (processes[n] = "live" \/ ~Launchable(n))

\* C29 witness: the tick has started a service that had no live process and
\* whose restart budget is used up, and is about to set running = true.
C29_Witness ==
    /\ m_pc = "st_state"
    /\ services[m_cur].boot_attempts = 0
    /\ ~services[m_cur].running
    /\ processes[m_cur] = "live"
    /\ Launchable(m_cur)

\* C30: while a record has failed = true the monitor spawns no process for
\* it: no start_service of the monitor, on the not-alive path or on the
\* forced-restart path, succeeds for a record whose failed flag is set.
C30_NoMonitorSpawnWhileFailed ==
    [][((m_pc = "start" /\ m_pc' = "st_ins")
          \/ (m_pc = "rs_spawn" /\ m_pc' = "rs_ins")) =>
            ~services[m_cur].failed]_vars

\* C31: a successful probe of an alive service leaves the record healthy
\* and running, the failure counter of the service at 0 whatever it was, and
\* boot_attempts as it was; the tick goes on without a restart.
C31_SuccessResetsCounter ==
    [][(m_pc = "probe" /\ m_pc' # "probe" /\ services'[m_cur].healthy) =>
          /\ services'[m_cur].running
          /\ failures'[m_cur] = 0
          /\ services'[m_cur].boot_attempts = services[m_cur].boot_attempts
          /\ m_pc' = "next"]_vars

\* C31 witness: the probe of a live process is under way after two failures
\* in a row, with restart budget left; its success is the step of the claim.
C31_Witness ==
    /\ m_pc = "probe"
    /\ failures[m_cur] = RestartThreshold - 1
    /\ services[m_cur].boot_attempts > 0
    /\ processes[m_cur] = "live"

\* C32: a health probe is a success if and only if the response has status
\* 200 and its body, trimmed, is the text true; a refused connection, a
\* timeout, an unreadable body, another status or another body is a failure.
C32_SuccessIffOkTrue ==
    [][(m_pc = "probe" /\ m_pc' # "probe") =>
          (services'[m_cur].healthy <=>
              /\ response'.kind = "reply"
              /\ response'.status = 200
              /\ Trim(response'.body) = <<"t", "r", "u", "e">>)]_vars

\* C33: a tick leaves alone the records that are disabled when it starts and
\* the supervisor's own record.  The snapshot that opens the tick holds
\* exactly the enabled records other than the supervisor's; the tick works
\* on names of its snapshot only, each taken off the snapshot once; and a
\* step of the tick changes no field, no process, no handle and no failure
\* counter of any record other than the one it is working on.
C33_TickFrame ==
    [][/\ (m_pc = "sleep" /\ m_pc' # "sleep") =>
            m_todo' = {n \in DOMAIN services :
                          services[n].enabled /\ n # Warden}
       /\ (m_pc # "sleep" /\ m_todo' # m_todo) =>
            m_cur' \in m_todo /\ m_todo' = m_todo \ {m_cur'}
       /\ m_cur' # m_cur => m_cur' \in m_todo
       /\ <<m_pc, m_todo, m_cur, m_alive>>' # <<m_pc, m_todo, m_cur, m_alive>> =>
            \A n \in DOMAIN services :
                (n # m_cur' \/ m_pc' = "sleep" \/ m_pc = "sleep") =>
                    /\ services'[n] = services[n]
                    /\ processes'[n] = processes[n]
                    /\ orphans'[n] = orphans[n]
                    /\ failures'[n] = failures[n]]_vars

\* C33 witness: a tick has taken its snapshot of a registry that holds the
\* disabled service A and the supervisor's own enabled record, found nothing
\* to do and is about to persist.
C33_Witness ==
    /\ m_pc = "next"
    /\ m_todo = {}
    /\ DOMAIN services = {"A", Warden}
    /\ ~services["A"].enabled
    /\ services[Warden].enabled
    /\ Serving

\* C34: a tick ends with one persist of the full registry, made when no
\* service of the snapshot is left, and no other step of the tick writes the
\* file.  A persist that returns Err, in the tick or in an admin call,
\* changes nothing of the registry in memory; the monitor is back at its
\* sleep and can start the next tick; the admin call goes on as after a
\* successful persist, still holds the values it wrote when it returns, and
\* returns 200.
C34_PersistBestEffort ==
    /\ [][/\ (m_pc # "sleep" /\ m_pc' = "sleep") =>
               /\ m_pc = "next" /\ m_todo = {}
               /\ file' = PersistToConfig \/ p_err'["mon"]
               /\ UNCHANGED <<regVars, procVars, failures>>
          /\ (m_pc # "sleep" /\ m_pc' # "sleep" /\ Busy = {"mon"}) =>
               file' = file
          /\ (p_err'["mon"] /\ ~p_err["mon"]) =>
               /\ UNCHANGED <<regVars, procVars, failures>>
               /\ m_pc' = "sleep"
          /\ \A h \in Handlers :
               (p_err'[h] /\ ~p_err[h]) =>
                  /\ UNCHANGED <<regVars, procVars, failures, h_name>>
                  /\ h_pc[h] = "e_persist" => h_pc'[h] = "e_check"
                  /\ h_pc[h] = "d_persist" => h_pc'[h] = "d_ret"]_vars
    /\ [](/\ (p_err["mon"] /\ m_pc = "sleep" /\ Busy = {}) => ENABLED MonTick
          /\ \A h \in Handlers :
               p_err[h] =>
                  /\ h_pc[h] \in {"e_check", "e_spawn", "e_ins", "e_state",
                                   "e_ret", "e_fail", "d_ret"}
                  /\ h_pc[h] \in {"e_ret", "e_fail"} =>
                        services[h_name[h]].enabled
                  /\ h_pc[h] = "d_ret" =>
                        /\ ~services[h_name[h]].enabled
                        /\ ~services[h_name[h]].running
                        /\ ~services[h_name[h]].healthy)

\* C34 witness: the persist of a disable call of the running service A has
\* failed and left a cut file; the call is about to return 200 and the
\* monitor's last persist had failed too.
C34_Witness ==
    /\ h_pc["h1"] = "d_ret"
    /\ p_err["h1"]
    /\ p_err["mon"]
    /\ ~Readable(file)
    /\ ~services["A"].enabled

\* C35: the order of a forced restart.  The stop comes first: it removes the
\* handle and kills the process behind it, so the live processes of the
\* service are one fewer before anything is spawned, and while the monitor
\* waits for the killed process no handle is tracked.  The spawn is reached
\* only from the finished stop.  A spawn that fails adds no process and no
\* handle and ends the restart; a spawn that succeeds adds one process, and
\* only then is a handle inserted.
C35_StopBeforeSpawn ==
    /\ [][/\ (m_pc = "rs_stop" /\ m_pc' # "rs_stop") =>
               /\ processes'[m_cur] = "none"
               /\ processes[m_cur] = "live" =>
                     LiveCount(m_cur)' = LiveCount(m_cur) - 1
               /\ m_pc' = IF processes[m_cur] = "none"
                          THEN "rs_spawn" ELSE "rs_wait"
          /\ (m_pc # "rs_spawn" /\ m_pc' = "rs_spawn") =>
               m_pc \in {"rs_stop", "rs_wait"}
          /\ (m_pc = "rs_spawn" /\ m_pc' # "rs_spawn") =>
               /\ UNCHANGED <<processes, orphans>>
               /\ IF exe[m_cur]
                  THEN /\ m_pc' = "rs_ins"
                       /\ LiveCount(m_cur)' = LiveCount(m_cur) + 1
                  ELSE /\ m_pc' = "next"
                       /\ LiveCount(m_cur)' = LiveCount(m_cur)
          /\ (m_pc # "rs_ins" /\ m_pc' = "rs_ins") => m_pc = "rs_spawn"
          /\ (m_pc = "rs_ins" /\ m_pc' # "rs_ins") =>
               /\ processes'[m_cur] = "live"
               /\ LiveCount(m_cur)' = LiveCount(m_cur)
                     \/ orphans[m_cur] = MaxOrphans]_vars
    /\ [](m_pc = "rs_wait" =>
             processes[m_cur] = "none" /\ lock["procs"] = "mon")

\* C35 witness: the monitor has stopped the unhealthy process of A, no handle
\* and no process of A is left, and the replacement has been spawned and
\* waits for its handle to be inserted.
C35_Witness ==
    /\ m_pc = "rs_ins"
    /\ m_cur = "A"
    /\ processes["A"] = "none"
    /\ orphans["A"] = 0
    /\ LiveCount("A") = 1

\* C36: the failure counter of a service is 0 when a new process instance
\* of it starts being probed: when a handle is inserted where none of a
\* live process was, the counter of the service is 0 once the operation that
\* inserted it has run to its end (the forced restart resets the counter in
\* the step after its insert, before any probe can be made).
C36_NewInstanceCounterZero ==
    [][/\ \A n \in DOMAIN services :
            (processes[n] # "live" /\ processes'[n] = "live") =>
                failures'[n] = 0 \/ m_pc' = "rs_state"
       /\ (m_pc = "rs_state" /\ m_pc' # "rs_state") =>
            failures'[m_cur] = 0]_vars

\* C37: boot_attempts of a record never grows and its u32 never wraps: a
\* step that ends a successful forced restart finds it above 0 and takes
\* exactly one off, and no other step of the monitor, the startup spawner or
\* an admin call changes it.  So the successful forced restarts of a service
\* are at most the boot_attempts it was loaded with.
C37_BootAttemptsOnlyDown ==
    [][\A n \in DOMAIN services :
          /\ services'[n].boot_attempts <= services[n].boot_attempts
          /\ IF m_pc = "rs_state" /\ m_pc' # "rs_state" /\ n = m_cur
             THEN /\ services[n].boot_attempts > 0
                  /\ services'[n].boot_attempts =
                        services[n].boot_attempts - 1
             ELSE services'[n].boot_attempts = services[n].boot_attempts]_vars

\* C37 witness: a forced restart has spawned the replacement and is about
\* to take the last boot attempt of A while an admin call is under way.
C37_Witness ==
    /\ m_pc = "rs_state"
    /\ m_cur = "A"
    /\ services["A"].boot_attempts = 1
    /\ h_pc["h1"] \notin {"idle", "nf_ret"}

\* C38: between operations (no startup spawn, tick or admin call under way)
\* a record that is healthy is also running.
C38_HealthyImpliesRunning ==
    Busy = {} =>
        \A n \in DOMAIN services : services[n].healthy => services[n].running

\* C39: between operations (no startup spawn, tick or admin call under way)
\* a record that is running has a process handle in the table.
C39_RunningImpliesHandle ==
    Busy = {} =>
        \A n \in DOMAIN services :
            services[n].running => processes[n] # "none"

\* C40: the supervisor never spawns a process for its own record: no process
\* of hive_agent-warden is spawned, held or tracked by the startup spawner,
\* by a tick or by an admin call.
C40_NeverSpawnsItself ==
    /\ processes[Warden] = "none"
    /\ LiveCount(Warden) = 0

====
